----------------------------- MODULE ThriftTypes -----------------------------
(***************************************************************************)
(* The structs of the protocol, as the generated client knows them         *)
(* (client_types.js, and two of common_types.js): the fields in the order  *)
(* in which they are written, each with its id, its wire type and whether  *)
(* the constructor insists on it.                                          *)
(***************************************************************************)
EXTENDS Integers, Sequences

Req(id, name, type) == [id |-> id, name |-> name, type |-> type, required |-> TRUE]
Opt(id, name, type) == [id |-> id, name |-> name, type |-> type, required |-> FALSE]

-----------------------------------------------------------------------------
(* common_types.js *)

TEndPoint == <<Req(1, "ip", "STRING"), Req(2, "port", "I32")>>

TSStatus == <<
    Req(1, "code", "I32"), Opt(2, "message", "STRING"), Opt(3, "subStatus", "LIST"),
    Opt(4, "redirectNode", "STRUCT"), Opt(5, "needRetry", "BOOL")>>

-----------------------------------------------------------------------------
(* client_types.js *)

TSQueryDataSet == <<
    Req(1, "time", "STRING"), Req(2, "valueList", "LIST"), Req(3, "bitmapList", "LIST")>>

TSQueryNonAlignDataSet == <<Req(1, "timeList", "LIST"), Req(2, "valueList", "LIST")>>

TSTracingInfo == <<
    Req(1, "activityList", "LIST"), Req(2, "elapsedTimeList", "LIST"),
    Opt(3, "seriesPathNum", "I32"), Opt(4, "seqFileNum", "I32"), Opt(5, "unSeqFileNum", "I32"),
    Opt(6, "sequenceChunkNum", "I32"), Opt(7, "sequenceChunkPointNum", "I64"),
    Opt(8, "unsequenceChunkNum", "I32"), Opt(9, "unsequenceChunkPointNum", "I64"),
    Opt(10, "totalPageNum", "I32"), Opt(11, "overlappedPageNum", "I32")>>

TSExecuteStatementResp == <<
    Req(1, "status", "STRUCT"), Opt(2, "queryId", "I64"), Opt(3, "columns", "LIST"),
    Opt(4, "operationType", "STRING"), Opt(5, "ignoreTimeStamp", "BOOL"),
    Opt(6, "dataTypeList", "LIST"), Opt(7, "queryDataSet", "STRUCT"),
    Opt(8, "nonAlignQueryDataSet", "STRUCT"), Opt(9, "columnNameIndexMap", "MAP"),
    Opt(10, "sgColumns", "LIST"), Opt(11, "aliasColumns", "LIST"),
    Opt(12, "tracingInfo", "STRUCT"), Opt(13, "queryResult", "LIST"),
    Opt(14, "moreData", "BOOL"), Opt(15, "database", "STRING"), Opt(16, "tableModel", "BOOL"),
    Opt(17, "columnIndex2TsBlockColumnIndexList", "LIST")>>

TSOpenSessionResp == <<
    Req(1, "status", "STRUCT"), Req(2, "serverProtocolVersion", "I32"),
    Opt(3, "sessionId", "I64"), Opt(4, "configuration", "MAP")>>

TSOpenSessionReq == <<
    Req(1, "client_protocol", "I32"), Req(2, "zoneId", "STRING"), Req(3, "username", "STRING"),
    Opt(4, "password", "STRING"), Opt(5, "configuration", "MAP")>>

TSCloseSessionReq == <<Req(1, "sessionId", "I64")>>

TSExecuteStatementReq == <<
    Req(1, "sessionId", "I64"), Req(2, "statement", "STRING"), Req(3, "statementId", "I64"),
    Opt(4, "fetchSize", "I32"), Opt(5, "timeout", "I64"), Opt(6, "enableRedirectQuery", "BOOL"),
    Opt(7, "jdbcQuery", "BOOL")>>

TSExecuteBatchStatementReq == <<Req(1, "sessionId", "I64"), Req(2, "statements", "LIST")>>

TSGetOperationStatusReq == <<Req(1, "sessionId", "I64"), Req(2, "queryId", "I64")>>

TSCancelOperationReq == <<Req(1, "sessionId", "I64"), Req(2, "queryId", "I64")>>

TSCloseOperationReq == <<
    Req(1, "sessionId", "I64"), Opt(2, "queryId", "I64"), Opt(3, "statementId", "I64"),
    Opt(4, "preparedStatementName", "STRING")>>

TSFetchResultsReq == <<
    Req(1, "sessionId", "I64"), Req(2, "statement", "STRING"), Req(3, "fetchSize", "I32"),
    Req(4, "queryId", "I64"), Req(5, "isAlign", "BOOL"), Opt(6, "timeout", "I64"),
    Opt(7, "statementId", "I64")>>

TSFetchResultsResp == <<
    Req(1, "status", "STRUCT"), Req(2, "hasResultSet", "BOOL"), Req(3, "isAlign", "BOOL"),
    Opt(4, "queryDataSet", "STRUCT"), Opt(5, "nonAlignQueryDataSet", "STRUCT"),
    Opt(6, "queryResult", "LIST"), Opt(7, "moreData", "BOOL")>>

TSFetchMetadataResp == <<
    Req(1, "status", "STRUCT"), Opt(2, "metadataInJson", "STRING"),
    Opt(3, "columnsList", "LIST"), Opt(4, "dataType", "STRING")>>

TSFetchMetadataReq == <<
    Req(1, "sessionId", "I64"), Req(2, "type", "STRING"), Opt(3, "columnPath", "STRING")>>

TSGetTimeZoneResp == <<Req(1, "status", "STRUCT"), Req(2, "timeZone", "STRING")>>

TSSetTimeZoneReq == <<Req(1, "sessionId", "I64"), Req(2, "timeZone", "STRING")>>

TSInsertRecordReq == <<
    Req(1, "sessionId", "I64"), Req(2, "prefixPath", "STRING"), Req(3, "measurements", "LIST"),
    Req(4, "values", "STRING"), Req(5, "timestamp", "I64"), Opt(6, "isAligned", "BOOL"),
    Opt(7, "isWriteToTable", "BOOL"), Opt(8, "columnCategoryies", "LIST")>>

TSInsertStringRecordReq == <<
    Req(1, "sessionId", "I64"), Req(2, "prefixPath", "STRING"), Req(3, "measurements", "LIST"),
    Req(4, "values", "LIST"), Req(5, "timestamp", "I64"), Opt(6, "isAligned", "BOOL"),
    Opt(7, "timeout", "I64")>>

TSInsertTabletReq == <<
    Req(1, "sessionId", "I64"), Req(2, "prefixPath", "STRING"), Req(3, "measurements", "LIST"),
    Req(4, "values", "STRING"), Req(5, "timestamps", "STRING"), Req(6, "types", "LIST"),
    Req(7, "size", "I32"), Opt(8, "isAligned", "BOOL"), Opt(9, "writeToTable", "BOOL"),
    Opt(10, "columnCategories", "LIST"), Opt(11, "isCompressed", "BOOL"),
    Opt(12, "encodingTypes", "LIST"), Opt(13, "compressType", "BYTE")>>

TSInsertTabletsReq == <<
    Req(1, "sessionId", "I64"), Req(2, "prefixPaths", "LIST"),
    Req(3, "measurementsList", "LIST"), Req(4, "valuesList", "LIST"),
    Req(5, "timestampsList", "LIST"), Req(6, "typesList", "LIST"), Req(7, "sizeList", "LIST"),
    Opt(8, "isAligned", "BOOL")>>

TSInsertRecordsReq == <<
    Req(1, "sessionId", "I64"), Req(2, "prefixPaths", "LIST"),
    Req(3, "measurementsList", "LIST"), Req(4, "valuesList", "LIST"),
    Req(5, "timestamps", "LIST"), Opt(6, "isAligned", "BOOL")>>

TSInsertRecordsOfOneDeviceReq == <<
    Req(1, "sessionId", "I64"), Req(2, "prefixPath", "STRING"),
    Req(3, "measurementsList", "LIST"), Req(4, "valuesList", "LIST"),
    Req(5, "timestamps", "LIST"), Opt(6, "isAligned", "BOOL")>>

TSInsertStringRecordsOfOneDeviceReq == <<
    Req(1, "sessionId", "I64"), Req(2, "prefixPath", "STRING"),
    Req(3, "measurementsList", "LIST"), Req(4, "valuesList", "LIST"),
    Req(5, "timestamps", "LIST"), Opt(6, "isAligned", "BOOL")>>

TSInsertStringRecordsReq == <<
    Req(1, "sessionId", "I64"), Req(2, "prefixPaths", "LIST"),
    Req(3, "measurementsList", "LIST"), Req(4, "valuesList", "LIST"),
    Req(5, "timestamps", "LIST"), Opt(6, "isAligned", "BOOL")>>

TSDeleteDataReq == <<
    Req(1, "sessionId", "I64"), Req(2, "paths", "LIST"), Req(3, "startTime", "I64"),
    Req(4, "endTime", "I64")>>

TSCreateTimeseriesReq == <<
    Req(1, "sessionId", "I64"), Req(2, "path", "STRING"), Req(3, "dataType", "I32"),
    Req(4, "encoding", "I32"), Req(5, "compressor", "I32"), Opt(6, "props", "MAP"),
    Opt(7, "tags", "MAP"), Opt(8, "attributes", "MAP"), Opt(9, "measurementAlias", "STRING")>>

TSCreateAlignedTimeseriesReq == <<
    Req(1, "sessionId", "I64"), Req(2, "prefixPath", "STRING"), Req(3, "measurements", "LIST"),
    Req(4, "dataTypes", "LIST"), Req(5, "encodings", "LIST"), Req(6, "compressors", "LIST"),
    Opt(7, "measurementAlias", "LIST"), Opt(8, "tagsList", "LIST"),
    Opt(9, "attributesList", "LIST")>>

TSRawDataQueryReq == <<
    Req(1, "sessionId", "I64"), Req(2, "paths", "LIST"), Opt(3, "fetchSize", "I32"),
    Req(4, "startTime", "I64"), Req(5, "endTime", "I64"), Req(6, "statementId", "I64"),
    Opt(7, "enableRedirectQuery", "BOOL"), Opt(8, "jdbcQuery", "BOOL"),
    Opt(9, "timeout", "I64"), Opt(10, "legalPathNodes", "BOOL")>>

TSLastDataQueryReq == <<
    Req(1, "sessionId", "I64"), Req(2, "paths", "LIST"), Opt(3, "fetchSize", "I32"),
    Req(4, "time", "I64"), Req(5, "statementId", "I64"), Opt(6, "enableRedirectQuery", "BOOL"),
    Opt(7, "jdbcQuery", "BOOL"), Opt(8, "timeout", "I64"), Opt(9, "legalPathNodes", "BOOL")>>

TSFastLastDataQueryForOnePrefixPathReq == <<
    Req(1, "sessionId", "I64"), Req(2, "prefixes", "LIST"), Opt(3, "fetchSize", "I32"),
    Req(4, "statementId", "I64"), Opt(5, "enableRedirectQuery", "BOOL"),
    Opt(6, "jdbcQuery", "BOOL"), Opt(7, "timeout", "I64")>>

TSFastLastDataQueryForOneDeviceReq == <<
    Req(1, "sessionId", "I64"), Req(2, "db", "STRING"), Req(3, "deviceId", "STRING"),
    Req(4, "sensors", "LIST"), Opt(5, "fetchSize", "I32"), Req(6, "statementId", "I64"),
    Opt(7, "enableRedirectQuery", "BOOL"), Opt(8, "jdbcQuery", "BOOL"),
    Opt(9, "timeout", "I64"), Opt(10, "legalPathNodes", "BOOL")>>

TSAggregationQueryReq == <<
    Req(1, "sessionId", "I64"), Req(2, "statementId", "I64"), Req(3, "paths", "LIST"),
    Req(4, "aggregations", "LIST"), Opt(5, "startTime", "I64"), Opt(6, "endTime", "I64"),
    Opt(7, "interval", "I64"), Opt(8, "slidingStep", "I64"), Opt(9, "fetchSize", "I32"),
    Opt(10, "timeout", "I64"), Opt(11, "legalPathNodes", "BOOL")>>

TSCreateMultiTimeseriesReq == <<
    Req(1, "sessionId", "I64"), Req(2, "paths", "LIST"), Req(3, "dataTypes", "LIST"),
    Req(4, "encodings", "LIST"), Req(5, "compressors", "LIST"), Opt(6, "propsList", "LIST"),
    Opt(7, "tagsList", "LIST"), Opt(8, "attributesList", "LIST"),
    Opt(9, "measurementAliasList", "LIST")>>

ServerProperties == <<
    Req(1, "version", "STRING"), Req(2, "supportedTimeAggregationOperations", "LIST"),
    Req(3, "timestampPrecision", "STRING"), Opt(4, "maxConcurrentClientNum", "I32"),
    Opt(5, "thriftMaxFrameSize", "I32"), Opt(6, "isReadOnly", "BOOL"),
    Opt(7, "buildInfo", "STRING"), Opt(8, "logo", "STRING")>>

TSSetSchemaTemplateReq == <<
    Req(1, "sessionId", "I64"), Req(2, "templateName", "STRING"),
    Req(3, "prefixPath", "STRING")>>

TSCreateSchemaTemplateReq == <<
    Req(1, "sessionId", "I64"), Req(2, "name", "STRING"),
    Req(3, "serializedTemplate", "STRING")>>

TSAppendSchemaTemplateReq == <<
    Req(1, "sessionId", "I64"), Req(2, "name", "STRING"), Req(3, "isAligned", "BOOL"),
    Req(4, "measurements", "LIST"), Req(5, "dataTypes", "LIST"), Req(6, "encodings", "LIST"),
    Req(7, "compressors", "LIST")>>

TSPruneSchemaTemplateReq == <<
    Req(1, "sessionId", "I64"), Req(2, "name", "STRING"), Req(3, "path", "STRING")>>

TSQueryTemplateReq == <<
    Req(1, "sessionId", "I64"), Req(2, "name", "STRING"), Req(3, "queryType", "I32"),
    Opt(4, "measurement", "STRING")>>

TSQueryTemplateResp == <<
    Req(1, "status", "STRUCT"), Req(2, "queryType", "I32"), Opt(3, "result", "BOOL"),
    Opt(4, "count", "I32"), Opt(5, "measurements", "LIST")>>

TSUnsetSchemaTemplateReq == <<
    Req(1, "sessionId", "I64"), Req(2, "prefixPath", "STRING"),
    Req(3, "templateName", "STRING")>>

TSDropSchemaTemplateReq == <<Req(1, "sessionId", "I64"), Req(2, "templateName", "STRING")>>

TCreateTimeseriesUsingSchemaTemplateReq == <<
    Req(1, "sessionId", "I64"), Req(2, "devicePathList", "LIST")>>

TSyncIdentityInfo == <<
    Req(1, "pipeName", "STRING"), Req(2, "createTime", "I64"), Req(3, "version", "STRING"),
    Req(4, "database", "STRING")>>

TSyncTransportMetaInfo == <<Req(1, "fileName", "STRING"), Req(2, "startIndex", "I64")>>

TPipeTransferReq == <<
    Req(1, "version", "BYTE"), Req(2, "type", "I16"), Req(3, "body", "STRING")>>

TPipeTransferResp == <<Req(1, "status", "STRUCT"), Opt(2, "body", "STRING")>>

TPipeSubscribeReq == <<
    Req(1, "version", "BYTE"), Req(2, "type", "I16"), Opt(3, "body", "STRING")>>

TPipeSubscribeResp == <<
    Req(1, "status", "STRUCT"), Req(2, "version", "BYTE"), Req(3, "type", "I16"),
    Opt(4, "body", "LIST")>>

TSBackupConfigurationResp == <<
    Req(1, "status", "STRUCT"), Opt(2, "enableOperationSync", "BOOL"),
    Opt(3, "secondaryAddress", "STRING"), Opt(4, "secondaryPort", "I32")>>

TSConnectionInfo == <<
    Req(1, "userName", "STRING"), Req(2, "logInTime", "I64"), Req(3, "connectionId", "STRING"),
    Req(4, "type", "I32")>>

TSConnectionInfoResp == <<Req(1, "connectionInfoList", "LIST")>>

-----------------------------------------------------------------------------
\* All of them, by name.
Structs == [
    TEndPoint |-> TEndPoint, TSStatus |-> TSStatus, TSQueryDataSet |-> TSQueryDataSet,
    TSQueryNonAlignDataSet |-> TSQueryNonAlignDataSet, TSTracingInfo |-> TSTracingInfo,
    TSExecuteStatementResp |-> TSExecuteStatementResp, TSOpenSessionResp |-> TSOpenSessionResp,
    TSOpenSessionReq |-> TSOpenSessionReq, TSCloseSessionReq |-> TSCloseSessionReq,
    TSExecuteStatementReq |-> TSExecuteStatementReq,
    TSExecuteBatchStatementReq |-> TSExecuteBatchStatementReq,
    TSGetOperationStatusReq |-> TSGetOperationStatusReq,
    TSCancelOperationReq |-> TSCancelOperationReq, TSCloseOperationReq |-> TSCloseOperationReq,
    TSFetchResultsReq |-> TSFetchResultsReq, TSFetchResultsResp |-> TSFetchResultsResp,
    TSFetchMetadataResp |-> TSFetchMetadataResp, TSFetchMetadataReq |-> TSFetchMetadataReq,
    TSGetTimeZoneResp |-> TSGetTimeZoneResp, TSSetTimeZoneReq |-> TSSetTimeZoneReq,
    TSInsertRecordReq |-> TSInsertRecordReq,
    TSInsertStringRecordReq |-> TSInsertStringRecordReq,
    TSInsertTabletReq |-> TSInsertTabletReq, TSInsertTabletsReq |-> TSInsertTabletsReq,
    TSInsertRecordsReq |-> TSInsertRecordsReq,
    TSInsertRecordsOfOneDeviceReq |-> TSInsertRecordsOfOneDeviceReq,
    TSInsertStringRecordsOfOneDeviceReq |-> TSInsertStringRecordsOfOneDeviceReq,
    TSInsertStringRecordsReq |-> TSInsertStringRecordsReq, TSDeleteDataReq |-> TSDeleteDataReq,
    TSCreateTimeseriesReq |-> TSCreateTimeseriesReq,
    TSCreateAlignedTimeseriesReq |-> TSCreateAlignedTimeseriesReq,
    TSRawDataQueryReq |-> TSRawDataQueryReq, TSLastDataQueryReq |-> TSLastDataQueryReq,
    TSFastLastDataQueryForOnePrefixPathReq |-> TSFastLastDataQueryForOnePrefixPathReq,
    TSFastLastDataQueryForOneDeviceReq |-> TSFastLastDataQueryForOneDeviceReq,
    TSAggregationQueryReq |-> TSAggregationQueryReq,
    TSCreateMultiTimeseriesReq |-> TSCreateMultiTimeseriesReq,
    ServerProperties |-> ServerProperties, TSSetSchemaTemplateReq |-> TSSetSchemaTemplateReq,
    TSCreateSchemaTemplateReq |-> TSCreateSchemaTemplateReq,
    TSAppendSchemaTemplateReq |-> TSAppendSchemaTemplateReq,
    TSPruneSchemaTemplateReq |-> TSPruneSchemaTemplateReq,
    TSQueryTemplateReq |-> TSQueryTemplateReq, TSQueryTemplateResp |-> TSQueryTemplateResp,
    TSUnsetSchemaTemplateReq |-> TSUnsetSchemaTemplateReq,
    TSDropSchemaTemplateReq |-> TSDropSchemaTemplateReq,
    TCreateTimeseriesUsingSchemaTemplateReq |-> TCreateTimeseriesUsingSchemaTemplateReq,
    TSyncIdentityInfo |-> TSyncIdentityInfo, TSyncTransportMetaInfo |-> TSyncTransportMetaInfo,
    TPipeTransferReq |-> TPipeTransferReq, TPipeTransferResp |-> TPipeTransferResp,
    TPipeSubscribeReq |-> TPipeSubscribeReq, TPipeSubscribeResp |-> TPipeSubscribeResp,
    TSBackupConfigurationResp |-> TSBackupConfigurationResp,
    TSConnectionInfo |-> TSConnectionInfo, TSConnectionInfoResp |-> TSConnectionInfoResp]
=============================================================================
