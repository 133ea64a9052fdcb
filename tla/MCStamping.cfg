SPECIFICATION RuntimeSpec
CHECK_DEADLOCK FALSE
CONSTANTS
  Shards <- MCShards
  Accounts <- MCAccounts
  ShardOf <- MCShardOf
  NativeToken = ZPH
  MaxUint = 15
  Grace = 1
  ScriptRuntimes = {"script"}
  Menus <- MCPosting
INVARIANTS CoinsStamped
