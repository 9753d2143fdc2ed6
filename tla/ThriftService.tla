----------------------------- MODULE ThriftService -----------------------------
(***************************************************************************)
(* The methods of IClientRPCService.js that the program calls.  A method   *)
(* has a frame, the structs around its argument and around its result, and *)
(* the struct it sends and the one it gets.                                *)
(***************************************************************************)
EXTENDS ThriftTypes

Frame(arg, success) == [args |-> <<arg>>, result |-> <<success>>]

NoStruct == "none"     \* a number, not a struct

ExecuteQueryStatementV2Frame == Frame(Opt(1, "req", "STRUCT"), Opt(0, "success", "STRUCT"))
ExecuteQueryStatementV2 == [frame |-> ExecuteQueryStatementV2Frame,
                            request |-> "TSExecuteStatementReq",
                            response |-> "TSExecuteStatementResp"]

ExecuteUpdateStatementV2Frame == Frame(Opt(1, "req", "STRUCT"), Opt(0, "success", "STRUCT"))
ExecuteUpdateStatementV2 == [frame |-> ExecuteUpdateStatementV2Frame,
                             request |-> "TSExecuteStatementReq",
                             response |-> "TSExecuteStatementResp"]

FetchResultsV2Frame == Frame(Opt(1, "req", "STRUCT"), Opt(0, "success", "STRUCT"))
FetchResultsV2 == [frame |-> FetchResultsV2Frame,
                   request |-> "TSFetchResultsReq",
                   response |-> "TSFetchResultsResp"]

OpenSessionFrame == Frame(Opt(1, "req", "STRUCT"), Opt(0, "success", "STRUCT"))
OpenSession == [frame |-> OpenSessionFrame,
                request |-> "TSOpenSessionReq",
                response |-> "TSOpenSessionResp"]

CloseSessionFrame == Frame(Opt(1, "req", "STRUCT"), Opt(0, "success", "STRUCT"))
CloseSession == [frame |-> CloseSessionFrame,
                 request |-> "TSCloseSessionReq",
                 response |-> "TSStatus"]

CloseOperationFrame == Frame(Opt(1, "req", "STRUCT"), Opt(0, "success", "STRUCT"))
CloseOperation == [frame |-> CloseOperationFrame,
                   request |-> "TSCloseOperationReq",
                   response |-> "TSStatus"]

InsertTabletFrame == Frame(Opt(1, "req", "STRUCT"), Opt(0, "success", "STRUCT"))
InsertTablet == [frame |-> InsertTabletFrame,
                 request |-> "TSInsertTabletReq",
                 response |-> "TSStatus"]

InsertTabletsFrame == Frame(Opt(1, "req", "STRUCT"), Opt(0, "success", "STRUCT"))
InsertTablets == [frame |-> InsertTabletsFrame,
                  request |-> "TSInsertTabletsReq",
                  response |-> "TSStatus"]

RequestStatementIdFrame == Frame(Opt(1, "sessionId", "I64"), Opt(0, "success", "I64"))
RequestStatementId == [frame |-> RequestStatementIdFrame,
                       request |-> NoStruct,
                       response |-> NoStruct]

Methods == [
    executeQueryStatementV2 |-> ExecuteQueryStatementV2,
    executeUpdateStatementV2 |-> ExecuteUpdateStatementV2, fetchResultsV2 |-> FetchResultsV2,
    openSession |-> OpenSession, closeSession |-> CloseSession, closeOperation |-> CloseOperation,
    insertTablet |-> InsertTablet, insertTablets |-> InsertTablets,
    requestStatementId |-> RequestStatementId]
=============================================================================
