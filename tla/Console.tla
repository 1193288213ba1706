------------------------------ MODULE Console -------------------------------
(***************************************************************************)
(* One browser tab of the console (store.ts) and what the server keeps for *)
(* it: the administrator's session and the event stream, which only says   *)
(* that something has changed.  The tab then reads every table again, each *)
(* with a request of its own; here there are two, rules and scopes.        *)
(***************************************************************************)
EXTENDS Policy

VARIABLES
    session,        \* whether the tab's cookie names a valid session
    signal,         \* the subscriber's channel holds a signal
    wire,           \* an update is on its way to the tab
    authenticated,  \* the tab shows the console, not the login
    stream,         \* the tab's EventSource
    streamOnline,   \* what the tab shows of it
    timer,          \* the timer that collects updates runs
    load,           \* the refresh in flight
    view,           \* the tables the tab shows
    faults          \* requests that may still be lost

serverVars == <<session, signal>>
tabVars == <<authenticated, stream, streamOnline, timer, load, view>>
consoleVars == <<serverVars, wire, tabVars, faults>>

Idle == [busy |-> FALSE, got |-> <<>>, connect |-> FALSE]
Tables == [rules |-> Listed, scopes |-> scopes]
Empty == [rules |-> <<>>, scopes |-> <<>>]
Subscribed == up /\ stream = "open"

ConsoleInit ==
    /\ session = FALSE /\ signal = FALSE /\ wire = FALSE
    /\ authenticated = FALSE /\ stream = "closed" /\ streamOnline = FALSE
    /\ timer = FALSE /\ load = Idle /\ view = Tables

-----------------------------------------------------------------------------
(* The server. *)

(* publish: a signal that finds the channel full is dropped. *)
Publish == signal' = (signal \/ Subscribed)

SendSignal ==
    /\ Subscribed /\ signal
    /\ signal' = FALSE /\ wire' = TRUE
    /\ UNCHANGED <<policyVars, session, tabVars, faults>>

(* Mutant: the timer only keeps the connection alive. *)
TickAsComment == Subscribed /\ UNCHANGED <<policyVars, consoleVars>>

(* The stream sends an update every ten seconds, changed or not. *)
Tick ==
    /\ Subscribed /\ wire' = TRUE
    /\ UNCHANGED <<policyVars, serverVars, tabVars, faults>>

(* Sessions end after twelve hours; the stream of an ended one stays open. *)
SessionExpires ==
    /\ session /\ session' = FALSE
    /\ UNCHANGED <<policyVars, signal, wire, tabVars, faults>>

(* Sessions and subscribers are kept in memory. *)
ServerStops ==
    /\ Crash
    /\ session' = FALSE /\ signal' = FALSE
    /\ UNCHANGED <<wire, tabVars, faults>>

-----------------------------------------------------------------------------
(* The tab.  Each operator names the whole of what its step changes there.  *)

(* refresh: nothing while another refresh is in flight. *)
Refresh == load' = IF load.busy THEN load ELSE [Idle EXCEPT !.busy = TRUE]

(* connect: a stream of before is closed. *)
Connect == stream' = "connecting" /\ wire' = FALSE

(* login: read the tables, and connect when that has ended. *)
Enter ==
    /\ authenticated' = TRUE
    /\ IF load.busy
         THEN Connect /\ UNCHANGED load
         ELSE /\ load' = [Idle EXCEPT !.busy = TRUE, !.connect = TRUE]
              /\ UNCHANGED <<stream, wire>>
    /\ UNCHANGED <<policyVars, signal, streamOnline, timer, view, faults>>

(* init, of a page that is opened anew in a browser that is logged in. *)
OpenPage ==
    /\ up /\ session
    /\ authenticated' = TRUE
    /\ load' = [Idle EXCEPT !.busy = TRUE, !.connect = TRUE]
    /\ stream' = "closed" /\ streamOnline' = FALSE /\ wire' = FALSE /\ signal' = FALSE
    /\ timer' = FALSE /\ view' = Empty
    /\ UNCHANGED <<policyVars, session, faults>>

Login == up /\ ~authenticated /\ Enter /\ session' = TRUE

Logout ==
    /\ up /\ authenticated
    /\ authenticated' = FALSE /\ stream' = "closed" /\ wire' = FALSE
    /\ session' = FALSE /\ signal' = FALSE
    /\ UNCHANGED <<policyVars, streamOnline, timer, load, view, faults>>

(* The EventSource asks for the stream: it is opened and gets an update at   *)
(* once, refused for good, or, when nobody listens, asked for again later.   *)
StreamOpens ==
    /\ stream = "connecting" /\ up /\ session
    /\ stream' = "open" /\ streamOnline' = TRUE /\ wire' = TRUE /\ signal' = FALSE
    /\ UNCHANGED <<policyVars, session, authenticated, timer, load, view, faults>>

StreamFails ==
    /\ \/ stream = "connecting" /\ up /\ ~session /\ stream' = "closed"
       \/ stream = "connecting" /\ ~up /\ UNCHANGED stream
       \/ stream = "open" /\ ~up /\ stream' = "connecting"
    /\ streamOnline' = FALSE /\ wire' = FALSE
    /\ Refresh
    /\ UNCHANGED <<policyVars, serverVars, authenticated, timer, view, faults>>

(* An update starts the timer anew; when it fires the tables are read. *)
UpdateArrives ==
    /\ wire /\ wire' = FALSE /\ timer' = TRUE
    /\ UNCHANGED <<policyVars, serverVars, authenticated, stream, streamOnline,
                   load, view, faults>>

TimerFires ==
    /\ timer /\ timer' = FALSE
    /\ Refresh
    /\ UNCHANGED <<policyVars, serverVars, wire, authenticated, stream,
                   streamOnline, view, faults>>

(* The end of a refresh, and of the login that waits for it. *)
EndLoad ==
    /\ load' = Idle
    /\ IF load.connect THEN Connect ELSE UNCHANGED <<stream, wire>>

(* Nothing is shown before everything has been read. *)
Read(table) ==
    /\ up /\ session /\ load.busy /\ table \notin DOMAIN load.got
    /\ LET got == [t \in DOMAIN load.got \cup {table} |->
                     IF t = table THEN Tables[t] ELSE load.got[t]]
       IN  IF DOMAIN got = DOMAIN Tables
             THEN EndLoad /\ view' = got
             ELSE load' = [load EXCEPT !.got = got] /\ UNCHANGED <<stream, wire, view>>
    /\ UNCHANGED <<policyVars, serverVars, authenticated, streamOnline, timer, faults>>

(* One request fails, and the refresh with it; the tables keep their content. *)
ReadFails ==
    /\ load.busy
    /\ \/ ~up /\ UNCHANGED faults
       \/ faults > 0 /\ faults' = faults - 1
    /\ EndLoad
    /\ UNCHANGED <<policyVars, serverVars, authenticated, streamOnline, timer, view>>

(* The answer 401 closes the console.  A login that waits for this refresh   *)
(* connects nevertheless.                                                    *)
Unauthorized ==
    /\ load.busy /\ up /\ ~session
    /\ authenticated' = FALSE
    /\ load' = Idle
    /\ IF load.connect THEN Connect ELSE stream' = "closed" /\ wire' = FALSE
    /\ UNCHANGED <<policyVars, serverVars, streamOnline, timer, view, faults>>

(* The switch of a rule sends the whole rule as the tab shows it, which need *)
(* not be the rule as it is.                                                 *)
Toggle(i) ==
    /\ authenticated /\ session /\ i \in DOMAIN view.rules
    /\ SaveRule(i, [view.rules[i] EXCEPT !.enabled = ~@])
    /\ Publish /\ Refresh
    /\ UNCHANGED <<session, wire, authenticated, stream, streamOnline, timer, view, faults>>
=============================================================================
