SPECIFICATION Spec
CONSTANTS
  p1 = p1 p2 = p2 p3 = p3 q1 = q1 q2 = q2 q3 = q3 k1 = k1 k2 = k2 r1 = r1 r2 = r2
  n1 = n1 v1 = v1 v2 = v2
  K = K M1 = M1 M2 = M2 M3 = M3 M4 = M4 P = P Q = Q R = R None = None
  Items <- MCItems  Classes <- MCClasses  Modules <- MCModules  Packages <- MCPackages
  cls <- MCCls  module <- MCModule  packages <- MCPath
  originalname <- MCName  params <- MCParams
  Inputs <- MCInputs
INVARIANTS
  TypeInv
  MostSpecificWins
  OneFixtureWorld
  ItemsPreserved
  GroupedByKey
