SPECIFICATION Spec
CONSTANTS
  js = js
  javascript = javascript
  climate = climate
  climateChange = climateChange
  ref1 = ref1
  ref2 = ref2
  Null = Null
  Skills = {js, javascript}
  Causes = {climate, climateChange}
  RefIds = {ref1, ref2}
  up1 = up1
  up2 = up2
  Uploads = {up1, up2}
  Bodies <- MCBodies
  Lightcast <- MCLightcast
  SkillRows <- MCSkillRows
  CauseRows <- MCCauseRows
SYMMETRY Symmetry
INVARIANT TypeOK
INVARIANT SkillsAsAnnotated
INVARIANT CausesAsAnnotated
INVARIANT UploadTakesEffect
CHECK_DEADLOCK FALSE
