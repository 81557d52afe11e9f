SPECIFICATION FairSpec
CONSTANTS
  s1 = s1
  t1 = t1
  t2 = t2
  c1 = c1
  c2 = c2
  NoConfig = NoConfig
  Server = {s1}
  ToolName = {t1, t2}
  Config = {c1, c2}
  GoodConfig = {c1}
  FileConfig <- InFile
  Denied <- DenyOne
  Agent = {a1}
  TriggerCap = 1
  MaxEdit = 1
  MaxCall = 1
  MaxUpset = 1
INVARIANTS
  GatewaySound

  
