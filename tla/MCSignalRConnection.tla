-------------------------- MODULE MCSignalRConnection --------------------------
(***************************************************************************)
(* Browsers: with web sockets and event sources; with event sources only;  *)
(* Internet Explorer, with and without web sockets.                        *)
(***************************************************************************)
EXTENDS SignalRConnection

Modern   == {"webSockets", "serverSentEvents", "longPolling"}
NoSocket == {"serverSentEvents", "longPolling"}
Explorer == {"foreverFrame", "longPolling"}
Newer    == {"webSockets", "foreverFrame", "longPolling"}

AllBrowsers == {Modern, NoSocket, Explorer, Newer}

===============================================================================
