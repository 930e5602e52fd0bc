SPECIFICATION ApprovalSpec
CONSTANTS
  h1 = h1
  h2 = h2
  r1 = r1
  r2 = r2
  sdk = sdk
  direct = direct
  NULL = NULL
  Hashes = {h1, h2}
  Original = h1
  Reviewers = {r1, r2}
  Executors = {sdk}
  Viewers = {r1}
  Polling = {sdk}
  Want <- WantSdk
INVARIANT ApproveBindsWhatWasShown
