SPECIFICATION Spec
CONSTANTS
  i1 = i1
  i2 = i2
  bundleA = bundleA
  bundleB = bundleB
  target = target
  r1 = r1
  r2 = r2
  requirements = requirements
  wheel1 = wheel1
  wheel2 = wheel2
  added = added
  addedSums = addedSums
  Installers = {i1, i2}
  Bundles = {bundleA, bundleB}
  BundleOf <- MCBundleOf
  TargetOf <- MCTargetOf
  Targets = {target}
  Releases = {r1, r2}
  Listed <- MCListed
  Requirements = requirements
  Packages = {wheel1, wheel2}
  Spare = {added, addedSums}
  Overlooked = {addedSums}
  Order <- MCOrder
  Supported = {i1, i2}
  InitTargets = {"absent", "foreign"}
  MaxWrong <- MCMaxWrong
  MaxChanges = 1
  MaxStops = 1
INVARIANTS NothingExtra
