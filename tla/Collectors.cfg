CONSTANTS
  Unstated = Unstated
  Odd = "Odd"
  AtMax = 1000
  Who = {"bazarr","docker","downloaders","hardware","kea","logs","network","nix","packages","paperless","plex","protection","resources","servarr","storage","system","traefik","unbound","units","vms"}
SPECIFICATION Spec
INVARIANTS OnlyWholeRunsAreAccepted NothingRetiredUnobserved WholeRunsAreAccepted
             ProbeAgreesOnAbsence ExposureIsBracketed
CHECK_DEADLOCK FALSE
