----------------------------- MODULE MCWebServer -----------------------------
\* Requests and ways to start the server.
EXTENDS WebServer

Get(f) == [action |-> "GET", file |-> f, fits |-> TRUE]
TooLong == [NoRequest EXCEPT !.fits = FALSE]
SomeRequests == {Get("page"), Get("folder"), TooLong}
Web == [mode |-> TRUE, home |-> TRUE, up |-> FALSE]
NoMode == [Web EXCEPT !.mode = FALSE]
Elsewhere == [Web EXCEPT !.home = FALSE, !.up = TRUE]
AllSetups == {Web, NoMode, Elsewhere}
===============================================================================
