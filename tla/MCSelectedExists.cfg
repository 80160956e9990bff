SPECIFICATION Spec
CONSTANTS
  Request = {r1, r2}
  NoRequest = NoRequest
  MaxPlugins = 2
  MaxUpload = 2
INVARIANT
  SelectedExists
