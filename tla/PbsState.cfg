\* Two concurrent reloads and two validators.
SPECIFICATION Spec
CONSTANTS
  Unset = Unset
  LoaderFails = LoaderFails
  Files <- MCFiles
  LoaderAnswers <- MCAnswers
  Validators = {"v1", "v2"}
  Reloads = {p1, p2}
  MaxEdits = 2
INVARIANTS
  RunningConfigSound
  MuxSeparation
  PayloadRelayAsked
