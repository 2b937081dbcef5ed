------------------------------ MODULE IdbMessages ------------------------------
(***************************************************************************)
(* The messages that simgadget and idb_companion exchange, as the encode   *)
(* and decode functions of idb/generated/idb.ts have them: of each message *)
(* its fields in the order in which they are written, of each field its    *)
(* number, its encoding and what message it holds.                         *)
(***************************************************************************)
EXTENDS Naturals

Scalar == <<>>  \* a field that holds no message

Field(number, name, kind, wire, label, of) ==
  [number |-> number, name |-> name, kind |-> kind, wire |-> wire, label |-> label, of |-> of]

\* A plain field is not written while it has its default value.
Plain(number, name, kind, wire) == Field(number, name, kind, wire, "singular", Scalar)
Text(number, name)   == Plain(number, name, "string", "delimited")
Bytes(number, name)  == Plain(number, name, "bytes", "delimited")
Bool(number, name)   == Plain(number, name, "bool", "varint")
Int32(number, name)  == Plain(number, name, "int32", "varint")
Uint32(number, name) == Plain(number, name, "uint32", "varint")
Uint64(number, name) == Plain(number, name, "uint64", "varint")
Double(number, name) == Plain(number, name, "double", "fixed64")

\* A message, or a field that may be undefined; all that follow one another; a map,
\* whose entries are messages; numbers in one record.
Optional(field) == [field EXCEPT !.label = "optional"]
Repeated(field) == [field EXCEPT !.label = "repeated"]
Packed(field)   == [field EXCEPT !.label = "packed", !.wire = "delimited"]
Sub(number, name, of) == Field(number, name, "message", "delimited", "optional", of)
Itself(number, name)  == Field(number, name, "itself", "delimited", "optional", Scalar)
Map(number, name, of) == Field(number, name, "message", "delimited", "map", of)

Payload ==
    <<Optional(Text(1, "filePath")), Optional(Bytes(2, "data")),
      Optional(Text(3, "url")), Optional(Int32(4, "compression"))>>
ProcessOutput == <<Int32(1, "interface"), Bytes(2, "data")>>
CompanionInfo == <<Text(1, "udid"), Bool(4, "isLocal"), Bytes(6, "metadata")>>
SettingRequest_HardwareKeyboard == <<Bool(1, "enabled")>>
SettingRequest_StringSetting ==
    <<Int32(1, "setting"), Text(2, "value"), Text(3, "name"), Text(4, "domain"),
      Text(5, "valueType")>>
SettingRequest ==
    <<Sub(1, "hardwareKeyboard", SettingRequest_HardwareKeyboard),
      Sub(2, "stringSetting", SettingRequest_StringSetting)>>
SettingResponse == <<>>
GetSettingRequest == <<Int32(1, "setting"), Text(2, "name"), Text(3, "domain")>>
GetSettingResponse == <<Text(1, "value")>>
ListSettingRequest == <<Int32(1, "setting")>>
ListSettingResponse == <<Repeated(Text(1, "values"))>>
ListAppsRequest == <<Bool(1, "suppressProcessState")>>
InstalledAppInfo ==
    <<Text(1, "bundleId"), Text(2, "name"), Repeated(Text(3, "architectures")),
      Text(4, "installType"), Int32(5, "processState"), Bool(6, "debuggable"),
      Uint64(7, "processIdentifier")>>
ListAppsResponse == <<Repeated(Sub(1, "apps", InstalledAppInfo))>>
InstallRequest_LinkDsymToBundle == <<Int32(1, "bundleType"), Text(2, "bundleId")>>
InstallRequest ==
    <<Optional(Int32(1, "destination")), Sub(2, "payload", Payload),
      Optional(Text(3, "nameHint")), Optional(Bool(4, "makeDebuggable")),
      Optional(Text(5, "bundleId")),
      Sub(6, "linkDsymToBundle", InstallRequest_LinkDsymToBundle),
      Optional(Bool(7, "overrideModificationTime")),
      Optional(Bool(8, "skipSigningBundles"))>>
InstallResponse == <<Text(1, "name"), Text(2, "uuid"), Double(3, "progress")>>
ScreenshotRequest == <<>>
ScreenshotResponse == <<Bytes(1, "imageData"), Text(2, "imageFormat")>>
FocusRequest == <<>>
FocusResponse == <<>>
Point == <<Double(1, "x"), Double(2, "y")>>
AccessibilityInfoRequest ==
    <<Sub(2, "point", Point), Int32(3, "format"), Text(4, "marker"),
      Int32(5, "matchKey"), Uint32(6, "depth"), Repeated(Text(7, "keys")),
      Int32(8, "backend"), Bool(9, "profile"), Bool(10, "collectFrameCoverage")>>
AccessibilityInfoResponse == <<Text(1, "json")>>
AccessibilityActionRequest_Tap ==
    <<Bool(1, "checkExpectedValue"), Text(2, "expectedValue"), Int32(3, "expectedKey")>>
AccessibilityActionRequest_Scroll == <<Int32(1, "direction")>>
AccessibilityActionRequest_SetValue == <<Text(1, "value")>>
AccessibilityActionRequest ==
    <<Optional(Text(1, "marker")), Sub(2, "point", Point), Int32(3, "matchKey"),
      Uint32(4, "depth"), Sub(5, "tap", AccessibilityActionRequest_Tap),
      Sub(6, "scroll", AccessibilityActionRequest_Scroll),
      Sub(7, "setValue", AccessibilityActionRequest_SetValue)>>
AccessibilityActionResponse == <<>>
ApproveRequest ==
    <<Text(1, "bundleId"), Packed(Int32(2, "permissions")), Text(3, "scheme")>>
ApproveResponse == <<>>
RevokeRequest ==
    <<Text(1, "bundleId"), Packed(Int32(2, "permissions")), Text(3, "scheme")>>
RevokeResponse == <<>>
ClearKeychainRequest == <<>>
ClearKeychainResponse == <<>>
Location == <<Double(1, "latitude"), Double(2, "longitude")>>
SetLocationRequest == <<Sub(1, "location", Location)>>
SetLocationResponse == <<>>
UninstallRequest == <<Text(1, "bundleId")>>
UninstallResponse == <<>>
TerminateRequest == <<Text(1, "bundleId")>>
TerminateResponse == <<>>
OpenUrlRequest == <<Text(1, "url")>>
OpenUrlResponse == <<>>
ContactsUpdateRequest == <<Sub(1, "payload", Payload)>>
ContactsUpdateResponse == <<>>
ContactsClearRequest == <<>>
ContactsClearResponse == <<>>
PhotosClearRequest == <<>>
PhotosClearResponse == <<>>
TargetDescriptionRequest == <<Bool(1, "fetchDiagnostics")>>
ScreenDimensions ==
    <<Uint64(1, "width"), Uint64(2, "height"), Double(3, "density"),
      Uint64(4, "widthPoints"), Uint64(5, "heightPoints")>>
TargetDescription ==
    <<Text(1, "udid"), Text(2, "name"), Sub(3, "screenDimensions", ScreenDimensions),
      Text(4, "state"), Text(5, "targetType"), Text(6, "osVersion"),
      Text(7, "architecture"), Bytes(9, "extended"), Bytes(10, "diagnostics")>>
TargetDescriptionResponse ==
    <<Sub(1, "targetDescription", TargetDescription),
      Sub(2, "companion", CompanionInfo)>>
HIDEvent_HIDTouch == <<Sub(1, "point", Point)>>
HIDEvent_HIDButton == <<Int32(1, "button")>>
HIDEvent_HIDKey == <<Uint64(1, "keycode")>>
HIDEvent_HIDPressAction ==
    <<Sub(1, "touch", HIDEvent_HIDTouch), Sub(2, "button", HIDEvent_HIDButton),
      Sub(3, "key", HIDEvent_HIDKey)>>
HIDEvent_HIDPress ==
    <<Sub(1, "action", HIDEvent_HIDPressAction), Int32(2, "direction")>>
HIDEvent_HIDSwipe ==
    <<Sub(1, "start", Point), Sub(2, "end", Point), Double(5, "delta"),
      Double(6, "duration")>>
HIDEvent_HIDDelay == <<Double(1, "duration")>>
HIDEvent_HIDPinch ==
    <<Sub(1, "center", Point), Double(2, "scale"), Double(3, "duration"),
      Double(4, "radius")>>
HIDEvent_HIDOrientation == <<Int32(1, "orientation")>>
HIDEvent_HIDShake == <<>>
HIDEvent ==
    <<Sub(1, "press", HIDEvent_HIDPress), Sub(2, "swipe", HIDEvent_HIDSwipe),
      Sub(3, "delay", HIDEvent_HIDDelay), Sub(4, "pinch", HIDEvent_HIDPinch),
      Sub(5, "orientation", HIDEvent_HIDOrientation),
      Sub(6, "shake", HIDEvent_HIDShake)>>
HIDResponse == <<>>
ConnectRequest_MetadataEntry == <<Text(1, "key"), Text(2, "value")>>
ConnectRequest ==
    <<Map(1, "metadata", ConnectRequest_MetadataEntry), Text(4, "localFilePath")>>
ConnectResponse == <<Sub(1, "companion", CompanionInfo)>>
LogRequest == <<Repeated(Text(1, "arguments")), Int32(2, "source")>>
LogResponse == <<Bytes(1, "output")>>
RecordRequest_Start == <<Text(1, "filePath")>>
RecordRequest_Stop == <<>>
RecordRequest ==
    <<Sub(1, "start", RecordRequest_Start), Sub(2, "stop", RecordRequest_Stop)>>
RecordResponse == <<Optional(Bytes(1, "logOutput")), Sub(2, "payload", Payload)>>
VideoStreamRequest_Start ==
    <<Text(1, "filePath"), Uint64(2, "fps"), Int32(3, "format"),
      Double(4, "compressionQuality"), Double(5, "scaleFactor"),
      Double(6, "avgBitrate"), Double(7, "keyFrameRate")>>
VideoStreamRequest_Stop == <<>>
VideoStreamRequest ==
    <<Sub(1, "start", VideoStreamRequest_Start),
      Sub(2, "stop", VideoStreamRequest_Stop)>>
VideoStreamResponse == <<Optional(Bytes(1, "logOutput")), Sub(2, "payload", Payload)>>
LaunchRequest_Start_EnvEntry == <<Text(1, "key"), Text(2, "value")>>
LaunchRequest_Start ==
    <<Text(1, "bundleId"), Map(2, "env", LaunchRequest_Start_EnvEntry),
      Repeated(Text(3, "appArgs")), Bool(4, "foregroundIfRunning"), Bool(5, "waitFor"),
      Bool(6, "waitForDebugger"), Bool(7, "enableRepl")>>
LaunchRequest_Stop == <<>>
LaunchRequest ==
    <<Sub(1, "start", LaunchRequest_Start), Sub(2, "stop", LaunchRequest_Stop)>>
DebuggerInfo == <<Uint64(1, "pid"), Text(2, "host"), Uint64(3, "port")>>
LaunchResponse == <<Sub(3, "output", ProcessOutput), Sub(4, "debugger", DebuggerInfo)>>
AddMediaRequest == <<Sub(1, "payload", Payload)>>
AddMediaResponse == <<>>
InstrumentsRunRequest_Start_EnvironmentEntry == <<Text(1, "key"), Text(2, "value")>>
InstrumentsRunRequest_InstrumentsTimings ==
    <<Double(1, "terminateTimeout"), Double(2, "launchRetryTimeout"),
      Double(3, "launchErrorTimeout"), Double(4, "operationDuration")>>
InstrumentsRunRequest_Start ==
    <<Text(2, "templateName"), Text(3, "appBundleId"),
      Map(4, "environment", InstrumentsRunRequest_Start_EnvironmentEntry),
      Repeated(Text(5, "arguments")),
      Sub(6, "timings", InstrumentsRunRequest_InstrumentsTimings),
      Repeated(Text(7, "toolArguments"))>>
InstrumentsRunRequest_Stop == <<Repeated(Text(1, "postProcessArguments"))>>
InstrumentsRunRequest ==
    <<Sub(1, "start", InstrumentsRunRequest_Start),
      Sub(2, "stop", InstrumentsRunRequest_Stop)>>
InstrumentsRunResponse ==
    <<Optional(Bytes(1, "logOutput")), Sub(2, "payload", Payload),
      Optional(Int32(3, "state"))>>
XctraceRecordRequest_LauchProcess_ProcessEnvEntry ==
    <<Text(1, "key"), Text(2, "value")>>
XctraceRecordRequest_LauchProcess ==
    <<Text(1, "processToLaunch"), Repeated(Text(2, "launchArgs")),
      Text(3, "targetStdin"), Text(4, "targetStdout"),
      Map(5, "processEnv", XctraceRecordRequest_LauchProcess_ProcessEnvEntry)>>
XctraceRecordRequest_Target ==
    <<Optional(Bool(1, "allProcesses")), Optional(Text(2, "processToAttach")),
      Sub(3, "launchProcess", XctraceRecordRequest_LauchProcess)>>
XctraceRecordRequest_Start ==
    <<Text(1, "templateName"), Double(2, "timeLimit"), Text(3, "package"),
      Sub(4, "target", XctraceRecordRequest_Target)>>
XctraceRecordRequest_Stop == <<Double(1, "timeout"), Repeated(Text(2, "args"))>>
XctraceRecordRequest ==
    <<Sub(1, "start", XctraceRecordRequest_Start),
      Sub(2, "stop", XctraceRecordRequest_Stop)>>
XctraceRecordResponse ==
    <<Optional(Bytes(1, "log")), Sub(2, "payload", Payload),
      Optional(Int32(3, "state"))>>
DebugServerRequest_Start == <<Text(1, "bundleId")>>
DebugServerRequest_Stop == <<>>
DebugServerRequest_Status == <<>>
DebugServerRequest_Pipe == <<Bytes(1, "data")>>
DebugServerRequest ==
    <<Sub(1, "start", DebugServerRequest_Start),
      Sub(2, "stop", DebugServerRequest_Stop),
      Sub(3, "status", DebugServerRequest_Status),
      Sub(4, "pipe", DebugServerRequest_Pipe)>>
DebugServerResponse_Status == <<Repeated(Text(1, "lldbBootstrapCommands"))>>
DebugServerResponse_Pipe == <<Bytes(1, "data")>>
DebugServerResponse ==
    <<Sub(1, "status", DebugServerResponse_Status),
      Sub(2, "pipe", DebugServerResponse_Pipe)>>
CrashShowRequest == <<Text(1, "name")>>
CrashLogInfo ==
    <<Text(1, "name"), Text(2, "bundleId"), Text(3, "processName"),
      Text(4, "parentProcessName"), Uint64(5, "processIdentifier"),
      Uint64(6, "parentProcessIdentifier"), Uint64(7, "timestamp")>>
CrashLogResponse == <<Repeated(Sub(1, "list", CrashLogInfo))>>
CrashShowResponse == <<Sub(1, "info", CrashLogInfo), Text(2, "contents")>>
CrashLogQuery ==
    <<Uint64(1, "since"), Uint64(2, "before"), Text(3, "bundleId"), Text(4, "name")>>
XctestListBundlesRequest == <<>>
XctestListBundlesResponse_Bundles ==
    <<Text(1, "name"), Text(2, "bundleId"), Repeated(Text(3, "architectures"))>>
XctestListBundlesResponse ==
    <<Repeated(Sub(1, "bundles", XctestListBundlesResponse_Bundles))>>
XctestListTestsRequest == <<Text(1, "bundleName"), Text(2, "appPath")>>
XctestListTestsResponse == <<Repeated(Text(1, "names"))>>
XctestRunRequest_Logic == <<>>
XctestRunRequest_Application == <<Text(1, "appBundleId")>>
XctestRunRequest_UI == <<Text(1, "appBundleId"), Text(2, "testHostAppBundleId")>>
XctestRunRequest_Mode ==
    <<Sub(1, "logic", XctestRunRequest_Logic),
      Sub(2, "application", XctestRunRequest_Application),
      Sub(3, "ui", XctestRunRequest_UI)>>
XctestRunRequest_EnvironmentEntry == <<Text(1, "key"), Text(2, "value")>>
XctestRunRequest_CodeCoverage ==
    <<Bool(1, "collect"), Int32(2, "format"),
      Bool(3, "enableContinuousCoverageCollection")>>
XctestRunRequest ==
    <<Sub(1, "mode", XctestRunRequest_Mode), Text(2, "testBundleId"),
      Repeated(Text(3, "testsToRun")), Repeated(Text(4, "testsToSkip")),
      Repeated(Text(5, "arguments")),
      Map(6, "environment", XctestRunRequest_EnvironmentEntry), Uint64(7, "timeout"),
      Bool(8, "reportActivities"), Bool(9, "collectCoverage"),
      Bool(10, "reportAttachments"), Bool(11, "collectLogs"),
      Bool(12, "waitForDebugger"),
      Sub(13, "codeCoverage", XctestRunRequest_CodeCoverage),
      Bool(14, "collectResultBundle")>>
XctestRunResponse_TestRunInfo_TestRunFailureInfo ==
    <<Text(1, "failureMessage"), Text(2, "file"), Uint64(3, "line")>>
XctestRunResponse_TestRunInfo_TestAttachment ==
    <<Bytes(1, "payload"), Double(2, "timestamp"), Text(3, "name"),
      Text(4, "uniformTypeIdentifier"), Bytes(5, "userInfoJson")>>
XctestRunResponse_TestRunInfo_TestActivity ==
    <<Text(1, "title"), Double(2, "duration"), Text(3, "uuid"), Text(4, "activityType"),
      Double(5, "start"), Double(6, "finish"), Text(7, "name"),
      Repeated(Sub(8, "attachments", XctestRunResponse_TestRunInfo_TestAttachment)),
      Repeated(Itself(9, "subActivities"))>>
XctestRunResponse_TestRunInfo ==
    <<Int32(1, "status"), Text(2, "bundleName"), Text(3, "className"),
      Text(4, "methodName"), Double(5, "duration"),
      Sub(6, "failureInfo", XctestRunResponse_TestRunInfo_TestRunFailureInfo),
      Repeated(Text(7, "logs")),
      Repeated(Sub(8, "activityLogs", XctestRunResponse_TestRunInfo_TestActivity)),
      Repeated(Sub(9, "otherFailures", XctestRunResponse_TestRunInfo_TestRunFailureInfo))>>
XctestRunResponse ==
    <<Int32(1, "status"), Repeated(Sub(2, "results", XctestRunResponse_TestRunInfo)),
      Repeated(Text(3, "logOutput")), Sub(4, "resultBundle", Payload),
      Text(5, "coverageJson"), Sub(6, "logDirectory", Payload),
      Sub(7, "debugger", DebuggerInfo), Sub(8, "codeCoverageData", Payload)>>
ReplRequest_Start ==
    <<Text(1, "testBundlePath"), Int32(2, "context"), Text(3, "appBundleId"),
      Bool(4, "reuseSession"), Text(5, "probeFilePath")>>
ReplRequest_Execute == <<Bytes(1, "dylib"), Text(2, "symbol")>>
ReplRequest_Stop == <<>>
ReplRequest ==
    <<Sub(1, "start", ReplRequest_Start), Sub(2, "execute", ReplRequest_Execute),
      Sub(3, "stop", ReplRequest_Stop)>>
ReplResponse_Ready_GeneratedInterface == <<Text(1, "moduleName"), Text(2, "contents")>>
ReplResponse_Ready ==
    <<Text(1, "deviceType"),
      Repeated(Sub(2, "generatedInterfaces", ReplResponse_Ready_GeneratedInterface)),
      Text(4, "osVersion"), Uint32(5, "nextRunIndex"), Bool(6, "sharedFilesystem"),
      Text(7, "sessionId")>>
ReplResponse_Result_Artifact == <<Text(1, "hostPath"), Text(2, "containerPath")>>
ReplResponse_Result ==
    <<Bool(1, "success"), Text(2, "output"), Int32(3, "nextRunIndex"),
      Repeated(Sub(4, "artifacts", ReplResponse_Result_Artifact))>>
ReplResponse_Stopped == <<Text(1, "desc")>>
ReplResponse ==
    <<Sub(1, "ready", ReplResponse_Ready), Sub(2, "result", ReplResponse_Result),
      Sub(3, "stopped", ReplResponse_Stopped)>>
FileContainer == <<Int32(1, "kind"), Text(2, "bundleId")>>
FileInfo == <<Text(1, "path")>>
FileListing == <<Sub(1, "parent", FileInfo), Repeated(Sub(2, "files", FileInfo))>>
LsResponse ==
    <<Repeated(Sub(1, "files", FileInfo)), Repeated(Sub(2, "listings", FileListing))>>
LsRequest ==
    <<Text(2, "path"), Sub(3, "container", FileContainer), Repeated(Text(4, "paths"))>>
MkdirRequest == <<Text(2, "path"), Sub(3, "container", FileContainer)>>
MkdirResponse == <<>>
MvRequest ==
    <<Repeated(Text(2, "srcPaths")), Text(3, "dstPath"),
      Sub(4, "container", FileContainer)>>
MvResponse == <<>>
RmRequest == <<Repeated(Text(2, "paths")), Sub(3, "container", FileContainer)>>
RmResponse == <<>>
PushRequest_Inner == <<Text(2, "dstPath"), Sub(3, "container", FileContainer)>>
PushRequest == <<Sub(1, "payload", Payload), Sub(2, "inner", PushRequest_Inner)>>
PushResponse == <<>>
PullRequest ==
    <<Text(2, "srcPath"), Text(3, "dstPath"), Sub(4, "container", FileContainer)>>
PullResponse == <<Sub(1, "payload", Payload)>>
TailRequest_Start == <<Sub(1, "container", FileContainer), Text(2, "path")>>
TailRequest_Stop == <<>>
TailRequest == <<Sub(1, "start", TailRequest_Start), Sub(2, "stop", TailRequest_Stop)>>
TailResponse == <<Bytes(1, "data")>>
SendNotificationRequest == <<Text(1, "bundleId"), Text(2, "jsonPayload")>>
SendNotificationResponse == <<>>
DapRequest_Start == <<Text(1, "debuggerPkgId")>>
DapRequest_Pipe == <<Bytes(1, "data")>>
DapRequest_Stop == <<>>
DapRequest ==
    <<Sub(1, "start", DapRequest_Start), Sub(2, "pipe", DapRequest_Pipe),
      Sub(3, "stop", DapRequest_Stop)>>
DapResponse_Event == <<Text(1, "desc")>>
DapResponse_Pipe == <<Bytes(1, "data")>>
DapResponse ==
    <<Sub(1, "started", DapResponse_Event), Sub(2, "stdout", DapResponse_Pipe),
      Sub(3, "stopped", DapResponse_Event)>>
SimulateMemoryWarningRequest == <<>>
SimulateMemoryWarningResponse == <<>>

\* The calls of the service: what is sent, and what is answered.
Rpc(request, response) == [request |-> request, response |-> response]

Service ==
  [connect |-> Rpc(ConnectRequest, ConnectResponse),
   debugserver |-> Rpc(DebugServerRequest, DebugServerResponse),
   dap |-> Rpc(DapRequest, DapResponse),
   describe |-> Rpc(TargetDescriptionRequest, TargetDescriptionResponse),
   install |-> Rpc(InstallRequest, InstallResponse),
   instrumentsRun |-> Rpc(InstrumentsRunRequest, InstrumentsRunResponse),
   log |-> Rpc(LogRequest, LogResponse),
   xctraceRecord |-> Rpc(XctraceRecordRequest, XctraceRecordResponse),
   accessibilityInfo |-> Rpc(AccessibilityInfoRequest, AccessibilityInfoResponse),
   accessibilityAction |-> Rpc(AccessibilityActionRequest, AccessibilityActionResponse),
   focus |-> Rpc(FocusRequest, FocusResponse),
   hid |-> Rpc(HIDEvent, HIDResponse),
   openUrl |-> Rpc(OpenUrlRequest, OpenUrlRequest),
   setLocation |-> Rpc(SetLocationRequest, SetLocationResponse),
   sendNotification |-> Rpc(SendNotificationRequest, SendNotificationResponse),
   simulateMemoryWarning |-> Rpc(SimulateMemoryWarningRequest, SimulateMemoryWarningResponse),
   approve |-> Rpc(ApproveRequest, ApproveResponse),
   revoke |-> Rpc(RevokeRequest, RevokeResponse),
   clearKeychain |-> Rpc(ClearKeychainRequest, ClearKeychainResponse),
   contactsUpdate |-> Rpc(ContactsUpdateRequest, ContactsUpdateResponse),
   contactsClear |-> Rpc(ContactsClearRequest, ContactsClearResponse),
   photosClear |-> Rpc(PhotosClearRequest, PhotosClearResponse),
   setting |-> Rpc(SettingRequest, SettingResponse),
   getSetting |-> Rpc(GetSettingRequest, GetSettingResponse),
   listSettings |-> Rpc(ListSettingRequest, ListSettingResponse),
   launch |-> Rpc(LaunchRequest, LaunchResponse),
   listApps |-> Rpc(ListAppsRequest, ListAppsResponse),
   terminate |-> Rpc(TerminateRequest, TerminateResponse),
   uninstall |-> Rpc(UninstallRequest, UninstallResponse),
   addMedia |-> Rpc(AddMediaRequest, AddMediaResponse),
   record |-> Rpc(RecordRequest, RecordResponse),
   screenshot |-> Rpc(ScreenshotRequest, ScreenshotResponse),
   videoStream |-> Rpc(VideoStreamRequest, VideoStreamResponse),
   crashDelete |-> Rpc(CrashLogQuery, CrashLogResponse),
   crashList |-> Rpc(CrashLogQuery, CrashLogResponse),
   crashShow |-> Rpc(CrashShowRequest, CrashShowResponse),
   xctestListBundles |-> Rpc(XctestListBundlesRequest, XctestListBundlesResponse),
   xctestListTests |-> Rpc(XctestListTestsRequest, XctestListTestsResponse),
   xctestRun |-> Rpc(XctestRunRequest, XctestRunResponse),
   repl |-> Rpc(ReplRequest, ReplResponse),
   ls |-> Rpc(LsRequest, LsResponse),
   mkdir |-> Rpc(MkdirRequest, MkdirResponse),
   mv |-> Rpc(MvRequest, MvResponse),
   rm |-> Rpc(RmRequest, RmResponse),
   pull |-> Rpc(PullRequest, PullResponse),
   push |-> Rpc(PushRequest, PushResponse),
   tail |-> Rpc(TailRequest, TailResponse)]
================================================================================
