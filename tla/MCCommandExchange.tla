-------------------------- MODULE MCCommandExchange --------------------------
(* Two requests of the protocol: an upload, which the other end refuses by *)
(* FAIL, and the logger, which it acknowledges.                            *)
EXTENDS CommandExchange

Upload == Signal("UPLOAD_ROUTE", "START")
Logger == Signal("SENSORS_LOGGER", "START")
Ack    == Signal("SENSORS_LOGGER", "ACK")

MCAskerCalls ==
    {SendCommandGetAnyResponse(Upload), SendCommandGetAnyParameter(Upload, "UPLOAD_ROUTE"),
     SendCommand(Logger), Ex(SendCommandGetResponse(Logger, Ack))}

MCAnswererCalls ==
    {WaitForAnyCommand, ReadCommandAndRespond(Upload, Signal("UPLOAD_ROUTE", "FAIL")),
     ReadCommandAndRespond(Logger, Ack), ReadCommandAndRespondEx(Logger, Ack)}
=============================================================================
