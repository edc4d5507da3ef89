----------------------------- MODULE MCMapAccess -----------------------------
(* Two connection goroutines calling the KvStore or HostContext methods.   *)
EXTENDS MapAccess

MCStoreMethods == {"GetExpired", "GetLive", "List", "SetPx", "Set"}
MCHostMethods == {"IsInTransaction", "BeginTransaction", "QueueCommand",
                  "ConsumeTransactionQueue"}
=============================================================================
