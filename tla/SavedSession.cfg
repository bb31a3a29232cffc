SPECIFICATION Spec
CONSTANTS
  None = None
  Plain = Plain
  shell = shell
  alt = alt
  panel = panel
  rude = rude
  n1 = n1
  n2 = n2
  i1 = i1
  i2 = i2
  i3 = i3
  i4 = i4
  Apps = {shell, alt, panel, rude}
  Services = {"shell"}
  Provides <- MCProvides
  Definitions = {"main", "fallback"}
  Default = "main"
  Fallback <- MCFallback
  Components <- MCComponents
  Names = {n1, n2}
  Ids = {i1, i2, i3, i4}
  Rude = {rude}
  AutoSave = {TRUE, FALSE}
SYMMETRY Symmetric
INVARIANTS TypeOK SavedIsRestored StartedOnce SelectedIsCurrent
