----------------------------- MODULE DisplayIpc -----------------------------
(* The display service: a process calls the composer through a DisplayClient *)
(* that all its threads share, over hwbinder; the server dispatches each     *)
(* message to the local adapter.  The server may die and come back: a binder *)
(* thread of the client then connects again, while the other threads call.   *)
(* The client keeps no lock: each read or write of is_ready or of            *)
(* meson_ipc_client is a step.                                               *)
EXTENDS Integers, FiniteSets

CONSTANTS
    Apps,                    \* the threads that call
    Busy,                    \* those that make every call
    Some,                    \* the calls the others make
    RECURSION_LIMIT,         \* of the server's record of calls
    MAX_GET_SERVICE_COUNT,   \* the last of the tries to find the server
    MaxDeaths, MaxCalls      \* bounds

VARIABLES
    ready,      \* DisplayClient::is_ready
    proxy,      \* DisplayClient::meson_ipc_client: the life of the server it is of, 0: null
    linked,     \* the lives whose death mDisplayServerDeathRecipient is told of
    due,        \* a death it is about to be told of
    life,       \* the server's life, counted from 1
    up,         \* the server is registered
    record,     \* size of the server's recursion_record
    leaving,    \* server threads that have answered and not yet taken their record away
    store,      \* what the setters left: the caller it comes from
    pc, tries, found,   \* of each thread of the client and of the server thread that serves it
    call,       \* the call a thread is in, the kind of the last one it has made
    said,       \* what the thread's last call returned is what it returns on success
    served,     \* the server has answered that call in full
    crashed,    \* a null meson_ipc_client was called, or the top of an empty stack read
    unwatched,  \* the server was dead when its death was to be linked
    raced,      \* two threads have looked for the server at once
    deaths, calls

ipc == <<ready, proxy, linked, due, life, up, record, leaving, store, pc, call, tries, found,
         said, served, crashed, unwatched, raced, deaths, calls>>

Binder == "binder"   \* the thread that runs serviceDied
Threads == Apps \cup {Binder}

-----------------------------------------------------------------------------
(* Messages.  What the client puts in a message and the member it looks for  *)
(* in the answer ("" when it does not wait); "ret" is the answer itself.      *)
Message(sends, wants) == [sends |-> sends, wants |-> wants]
Typed == {"p_displayType"}

ModeMessages ==
    [displayType |-> Message({}, "ret"),
     getConnectorType |-> Message({"p_displayId"}, "connectorType"),
     getSupportDisplayModes |-> Message(Typed, "displayModeList"),
     getDisplayMode |-> Message(Typed, "mode"),
     setDisplayMode |-> Message({"p_mode"} \cup Typed, ""),
     setPerferredMode |-> Message({"p_mode"} \cup Typed, ""),
     getCurrentSupportDeepColor |-> Message(Typed, "deepColor"),
     setColorSpace |-> Message({"p_colorspace"} \cup Typed, ""),
     clearUserDisplayConfig |-> Message(Typed, ""),
     setDvMode |-> Message({"p_dv_mode"} \cup Typed, "")]
(* As PictureMessages, but the mode of the white board looked for under the   *)
(* name the other switches use.                                               *)
PictureMessagesMixed ==
    [setWhiteBoardMode |-> Message({"value", "callingPid"}, ""),
     getWhiteBoardMode |-> Message({}, "value"),
     setWBDisplayFrame |-> Message({"posX", "posY"}, ""),
     hideVideoLayer |-> Message({"value"}, ""),
     setHdrConversionStrategy |-> Message({"passThrough", "forceMode"}, ""),
     getHdrSdrRatio |-> Message(Typed, "ratio"),
     setDisplayViewPort |-> Message({"rect"} \cup Typed, ""),
     getDisplayViewPort |-> Message(Typed, "rect")]

PictureMessages ==
    [setWhiteBoardMode |-> Message({"value", "callingPid"}, ""),
     getWhiteBoardMode |-> Message({}, "mode"),
     setWBDisplayFrame |-> Message({"posX", "posY"}, ""),
     hideVideoLayer |-> Message({"value"}, ""),
     setHdrConversionStrategy |-> Message({"passThrough", "forceMode"}, ""),
     getHdrSdrRatio |-> Message(Typed, "ratio"),
     setDisplayViewPort |-> Message({"rect"} \cup Typed, ""),
     getDisplayViewPort |-> Message(Typed, "rect")]
SettingMessages ==
    [setFrameRate |-> Message({"frameRate_value"}, "value"),
     setUbootenv |-> Message({"key", "value"}, ""),
     getUbootenv |-> Message({"key"}, "value"),
     setDisplayAttribute |-> Message({"name", "value"} \cup Typed, ""),
     getDisplayAttribute |-> Message({"name"} \cup Typed, "value"),
     getDisplayVsyncAndPeriod |-> Message({}, "value"),
     dumpDisplayAttribute |-> Message(Typed, "ret"),
     disableSidebandStream |-> Message({"value"}, ""),
     enableSyncProtection |-> Message({"value"}, ""),
     setKeystoneCorrection |-> Message({"params"}, ""),
     setReverseMode |-> Message({"value"}, ""),
     disableQms |-> Message({"value"}, ""),
     getQmsVrrCap |-> Message({}, "value")]

Sent(c) == IF c \in DOMAIN ModeMessages THEN ModeMessages[c]
           ELSE IF c \in DOMAIN PictureMessages THEN PictureMessages[c] ELSE SettingMessages[c]

(* What the server needs of a message, and the member it answers with.       *)
Handler(needs, gives) == [needs |-> needs, gives |-> gives]

FirstHandlers ==
    [displayType |-> Handler({}, "ret"),
     getConnectorType |-> Handler({"p_displayId"}, "connectorType"),
     getSupportDisplayModes |-> Handler(Typed, "displayModeList"),
     getDisplayMode |-> Handler(Typed, "mode"),
     setDisplayMode |-> Handler({"p_mode"} \cup Typed, ""),
     setDisplayViewPort |-> Handler({"rect"} \cup Typed, ""),
     getDisplayViewPort |-> Handler(Typed, "rect"),
     setDisplayAttribute |-> Handler({"name", "value"} \cup Typed, ""),
     getDisplayAttribute |-> Handler({"name"} \cup Typed, "value"),
     getDisplayVsyncAndPeriod |-> Handler({}, "value"),
     dumpDisplayAttribute |-> Handler(Typed, "ret"),
     setFrameRate |-> Handler({"frameRate_value"}, "value"),
     setWhiteBoardMode |-> Handler({"value", "callingPid"}, ""),
     getWhiteBoardMode |-> Handler({}, "mode"),
     setWBDisplayFrame |-> Handler({"posX", "posY"}, ""),
     hideVideoLayer |-> Handler({"value"}, "")]
LastHandlers ==
    [setUbootenv |-> Handler({"key", "value"}, ""),
     getUbootenv |-> Handler({"key"}, "value"),
     disableSidebandStream |-> Handler({"value"}, ""),
     disableQms |-> Handler({"value"}, ""),
     getQmsVrrCap |-> Handler({}, "value"),
     enableSyncProtection |-> Handler({"value"}, ""),
     setHdrConversionStrategy |-> Handler({"passThrough", "forceMode"}, ""),
     getHdrSdrRatio |-> Handler(Typed, "ratio"),
     setPerferredMode |-> Handler({"p_mode"} \cup Typed, ""),
     getCurrentSupportDeepColor |-> Handler(Typed, "deepColor"),
     setColorSpace |-> Handler({"p_colorspace"} \cup Typed, ""),
     clearUserDisplayConfig |-> Handler(Typed, ""),
     setDvMode |-> Handler({"p_dv_mode"} \cup Typed, ""),
     setKeystoneCorrection |-> Handler({"params"}, ""),
     setReverseMode |-> Handler({"value"}, "")]

Handled(c) == IF c \in DOMAIN FirstHandlers THEN FirstHandlers[c] ELSE LastHandlers[c]

(* A message that lacks a member the server needs is thrown away.             *)
Complete(c) == Handled(c).needs \subseteq Sent(c).sends

(* The two calls that pass a buffer have interface methods of their own.      *)
Buffers == {"captureDisplayScreen", "getWhiteBoardHanle"}
Every == DOMAIN ModeMessages \cup DOMAIN PictureMessages \cup DOMAIN SettingMessages \cup Buffers

ASSUME IpcAssumption == IsFiniteSet(Apps) /\ Binder \notin Apps /\ Some \subseteq Every

(* A setter does not wait for an answer, a getter does.                       *)
Waits(c) == c \in Buffers \/ Sent(c).wants # ""

(* The two calls whose answer is what they return, a success or not.          *)
Values == {"setFrameRate", "getQmsVrrCap"}
Verdicts(c) == IF c \in Values THEN BOOLEAN ELSE {TRUE}

CallsOf(t) == IF t \in Busy THEN Every ELSE Some

-----------------------------------------------------------------------------
(* The local adapter.  A mode, an attribute and the boot environment are      *)
(* kept by drivers and by the flash, the view port and the owner of the white *)
(* board by the composer.  Asking for the view port writes it: it is looked   *)
(* up under the number of the interface, found nowhere, and what the          *)
(* uninitialized rectangle holds is stored as the view port of the display.   *)
Lasting == {"mode", "attribute", "env"}
Setting(c) == CASE c = "setDisplayMode" -> {"mode"}
                [] c = "setDisplayAttribute" -> {"attribute"}
                [] c = "setUbootenv" -> {"env"}
                [] c \in {"setDisplayViewPort", "getDisplayViewPort"} -> {"rect"}
                [] c = "setWhiteBoardMode" -> {"board"}
                [] OTHER -> {}
Adapted(t, c) ==
    [k \in DOMAIN store |-> IF k \notin Setting(c) THEN store[k]
                            ELSE IF c = "getDisplayViewPort" THEN "junk" ELSE t]

-----------------------------------------------------------------------------
Init ==
    /\ ready = FALSE /\ proxy = 0 /\ linked = {} /\ due = FALSE
    /\ life = 1 /\ up = TRUE /\ record = 0 /\ leaving = 0
    /\ store = [k \in Lasting \cup {"rect", "board"} |-> "none"]
    /\ pc = [t \in Threads |-> "idle"] /\ call = [t \in Apps |-> ""]
    /\ tries = [t \in Threads |-> 0] /\ found = [t \in Threads |-> FALSE]
    /\ said = [t \in Apps |-> FALSE] /\ served = [t \in Apps |-> FALSE]
    /\ crashed = FALSE /\ unwatched = FALSE /\ raced = FALSE
    /\ deaths = 0 /\ calls = 0

At(t, place) == ~crashed /\ pc[t] = place
Go(t, place) == pc' = [pc EXCEPT ![t] = place]

client == <<ready, proxy, linked, due, unwatched, raced>>
server == <<life, up, record, leaving, store>>
local == <<call, tries, found, said, served>>
returns == <<call, said>>
bounds == <<deaths, calls>>

(* A thread calls; every method asks for the server before it makes its       *)
(* message.                                                                   *)
Call(t) ==
    /\ ~crashed /\ pc[t] = "idle" /\ calls < MaxCalls
    /\ calls' = calls + 1
    /\ call' = [call EXCEPT ![t] = ""]
    /\ said' = [said EXCEPT ![t] = FALSE]
    /\ served' = [served EXCEPT ![t] = FALSE]
    /\ Go(t, "try")
    /\ UNCHANGED <<client, server, tries, found, crashed, deaths>>

Kind(c) == IF c \in Buffers THEN "a buffer"
           ELSE IF c \in Values THEN "a value"
           ELSE IF Waits(c) THEN "a getter" ELSE "a setter"
Return(t, c, value) ==
    /\ Go(t, "idle")
    /\ said' = [said EXCEPT ![t] = value]
    /\ call' = [call EXCEPT ![t] = Kind(c)]

(* A thread that looks for the server: nothing keeps a second from doing so.  *)
Connecting(t) == pc[t] \in {"unready", "try", "get", "judge", "mark", "watch", "link", "back"}
Beside(t) == \E u \in Threads \ {t} : Connecting(u) /\ pc[u] # "try"

(* tryGetService: its first test, and what its caller does with its result.   *)
(* Without a server every call returns false: that is 0, a success, for the   *)
(* one that returns an integer, and a failure for the others.                 *)
Connected(t) == Go(t, IF t = Binder THEN "idle" ELSE "send") /\ UNCHANGED returns
NoServer(t, c) ==
    /\ said' = [said EXCEPT ![t] = c = "setFrameRate"]
    /\ call' = [call EXCEPT ![t] = IF c = "setFrameRate" THEN "unsent" ELSE Kind(c)]
Unconnected(t) ==
    /\ Go(t, "idle")
    /\ IF t = Binder THEN UNCHANGED returns ELSE \E c \in CallsOf(t) : NoServer(t, c)

Try(t) ==
    /\ At(t, "try")
    /\ IF ready THEN Connected(t) /\ UNCHANGED <<tries, raced>>
       ELSE /\ Go(t, "get") /\ tries' = [tries EXCEPT ![t] = 0] /\ raced' = (raced \/ Beside(t))
            /\ UNCHANGED returns
    /\ UNCHANGED <<ready, proxy, linked, due, unwatched, server, found, served, crashed, bounds>>

(* One try; 20 ms pass before the next.                                       *)
Get(t) ==
    /\ At(t, "get")
    /\ proxy' = IF up THEN life ELSE 0
    /\ tries' = [tries EXCEPT ![t] = @ + 1]
    /\ Go(t, IF up \/ tries[t] = MAX_GET_SERVICE_COUNT THEN "judge" ELSE "get")
    /\ UNCHANGED <<ready, linked, due, unwatched, raced, server, call, found, said, served, crashed,
                   bounds>>

Judge(t) ==
    /\ At(t, "judge")
    /\ found' = [found EXCEPT ![t] = proxy # 0]
    /\ Go(t, "mark")
    /\ UNCHANGED <<client, server, call, tries, said, served, crashed, bounds>>

Mark(t) ==
    /\ At(t, "mark")
    /\ ready' = found[t]
    /\ Go(t, "watch")
    /\ UNCHANGED <<proxy, linked, due, unwatched, raced, server, local, crashed, bounds>>

(* A new recipient replaces the last, which dies: binder keeps none alive.    *)
Watch(t) ==
    /\ At(t, "watch")
    /\ IF proxy = 0 THEN Go(t, "back") /\ UNCHANGED <<linked, due>>
       ELSE Go(t, "link") /\ linked' = {} /\ due' = FALSE
    /\ UNCHANGED <<ready, proxy, unwatched, raced, server, local, crashed, bounds>>

Link(t) ==
    /\ At(t, "link")
    /\ Go(t, "back")
    /\ crashed' = (proxy = 0)
    /\ IF up /\ proxy = life THEN linked' = linked \cup {life} /\ UNCHANGED unwatched
       ELSE unwatched' = TRUE /\ UNCHANGED linked
    /\ UNCHANGED <<ready, proxy, due, raced, server, local, bounds>>

Back(t) ==
    /\ At(t, "back")
    /\ IF ready THEN Connected(t) ELSE Unconnected(t)
    /\ UNCHANGED <<client, server, tries, found, served, crashed, bounds>>

(* serviceDied and reconnect, on the binder thread.                           *)
ServiceDied ==
    /\ At(Binder, "idle") /\ due
    /\ due' = FALSE
    /\ proxy' = 0
    /\ raced' = (raced \/ Beside(Binder))
    /\ Go(Binder, "unready")
    /\ UNCHANGED <<ready, linked, unwatched, server, local, crashed, bounds>>

(* As Reconnect, but is_ready keeps its value.                                *)
ReconnectReady ==
    /\ At(Binder, "unready")
    /\ Go(Binder, "try")
    /\ UNCHANGED <<client, server, local, crashed, bounds>>

Reconnect ==
    /\ At(Binder, "unready")
    /\ ready' = FALSE
    /\ Go(Binder, "try")
    /\ UNCHANGED <<proxy, linked, due, unwatched, raced, server, local, crashed, bounds>>

(* A setter returns true whatever became of its message, a getter false       *)
(* without an answer.  The calls that pass a buffer test a variable nobody    *)
(* has set when the transaction fails.                                        *)
Unanswered(t) ==
    \/ call[t] \notin Buffers /\ Return(t, call[t], ~Waits(call[t]))
    \/ call[t] \in Buffers /\ \E value \in BOOLEAN : Return(t, call[t], value)

(* send_request, send_request_wait_reply: the second look at is_ready.        *)
Send(t, c) ==
    /\ At(t, "send")
    /\ IF ready THEN Go(t, "invoke") /\ call' = [call EXCEPT ![t] = c] /\ UNCHANGED said
       ELSE Return(t, c, ~Waits(c))
    /\ UNCHANGED <<client, server, tries, found, served, crashed, bounds>>

Invoke(t) ==
    /\ At(t, "invoke")
    /\ IF proxy = 0 THEN crashed' = TRUE /\ UNCHANGED <<pc, said, call>>
       ELSE /\ UNCHANGED crashed
            /\ IF up /\ proxy = life
                 THEN /\ Go(t, IF call[t] \in Buffers THEN "pass" ELSE "enter")
                      /\ UNCHANGED <<said, call>>
               ELSE Unanswered(t)
    /\ UNCHANGED <<client, server, tries, found, served, bounds>>

-----------------------------------------------------------------------------
(* The server thread of a call: the record is locked for each operation, not  *)
(* from the look at its size to the push.                                     *)
Enter(t) ==
    /\ At(t, "enter")
    /\ Go(t, IF record >= RECURSION_LIMIT THEN "flush" ELSE "push")
    /\ UNCHANGED <<client, server, local, crashed, bounds>>

Push(t) ==
    /\ At(t, "push")
    /\ record' = record + 1
    /\ Go(t, "handle")
    /\ UNCHANGED <<client, life, up, leaving, store, local, crashed, bounds>>

(* At the limit every record is shown and dropped, the call gets no answer.   *)
Flush(t) ==
    /\ At(t, "flush")
    /\ IF record > 0 THEN Go(t, "top") /\ UNCHANGED <<said, call>>
       ELSE Return(t, call[t], ~Waits(call[t]))
    /\ UNCHANGED <<client, server, tries, found, served, crashed, bounds>>

(* Another call may have popped the last: then the top is not there, and the  *)
(* server may die of it or go on.                                             *)
Top(t) ==
    /\ At(t, "top")
    /\ Go(t, "drop")
    /\ \/ crashed' = FALSE
       \/ record = 0 /\ crashed' = TRUE
    /\ UNCHANGED <<client, server, local, bounds>>

(* As Popped, but the record is left.                                         *)
Kept == record

Popped == IF record > 0 THEN record - 1 ELSE 0
Drop(t) ==
    /\ At(t, "drop")
    /\ record' = Popped
    /\ Go(t, "flush")
    /\ UNCHANGED <<client, life, up, leaving, store, local, crashed, bounds>>

Handle(t) ==
    /\ At(t, "handle")
    /\ store' = IF Complete(call[t]) THEN Adapted(t, call[t]) ELSE store
    /\ Go(t, "pop")
    /\ UNCHANGED <<client, life, up, record, leaving, local, crashed, bounds>>

(* The answer has the member the client looks for, or the client says false;  *)
(* two calls return what it says.  It is on its way before the record is      *)
(* taken away; a message nobody waits for ends with that.                     *)
Answer(t) ==
    /\ At(t, "pop")
    /\ leaving' = leaving + 1
    /\ served' = [served EXCEPT ![t] = TRUE]
    /\ \E told \in Verdicts(call[t]) :
          Return(t, call[t], \/ ~Waits(call[t])
                             \/ /\ Complete(call[t]) /\ Handled(call[t]).gives = Sent(call[t]).wants
                                /\ told)
    /\ UNCHANGED <<client, life, up, record, store, tries, found, crashed, bounds>>

Leave ==
    /\ ~crashed /\ leaving > 0
    /\ leaving' = leaving - 1
    /\ record' = Popped
    /\ UNCHANGED <<client, life, up, store, pc, local, crashed, bounds>>

(* The screen is captured into a buffer freed once the client has it, or on   *)
(* failure; the handle of the white board is there while the mode is on.      *)
Passes(c) == IF c = "captureDisplayScreen" THEN BOOLEAN ELSE {store["board"] # "none"}
Pass(t) ==
    /\ At(t, "pass")
    /\ \E ok \in Passes(call[t]) :
          /\ Return(t, call[t], ok)
          /\ served' = [served EXCEPT ![t] = ok]
    /\ UNCHANGED <<client, server, tries, found, crashed, bounds>>

-----------------------------------------------------------------------------
Inside == {t \in Apps : pc[t] \in {"enter", "push", "flush", "top", "drop", "handle", "pop",
                                   "pass"}}

(* The server dies: the calls in it fail, what drivers keep stays.            *)
Die ==
    /\ ~crashed /\ up /\ deaths < MaxDeaths
    /\ deaths' = deaths + 1
    /\ up' = FALSE
    /\ record' = 0 /\ leaving' = 0
    /\ store' = [k \in DOMAIN store |-> IF k \in Lasting THEN store[k] ELSE "none"]
    /\ due' = (due \/ life \in linked)
    /\ linked' = linked \ {life}
    /\ \E error \in BOOLEAN :
          said' = [t \in Apps |-> IF t \notin Inside THEN said[t]
                                  ELSE IF call[t] \in Buffers THEN ~error ELSE ~Waits(call[t])]
    /\ pc' = [t \in Threads |-> IF t \in Inside THEN "idle" ELSE pc[t]]
    /\ call' = [t \in Apps |-> IF t \in Inside THEN Kind(call[t]) ELSE call[t]]
    /\ UNCHANGED <<ready, proxy, unwatched, raced, life, tries, found, served, crashed, calls>>

Restart ==
    /\ ~crashed /\ ~up
    /\ up' = TRUE /\ life' = life + 1
    /\ UNCHANGED <<client, record, leaving, store, pc, local, crashed, bounds>>

-----------------------------------------------------------------------------
Next ==
    \/ \E t \in Apps : \/ Call(t) \/ Invoke(t)
                       \/ \E c \in CallsOf(t) : Send(t, c)
                       \/ Enter(t) \/ Push(t) \/ Flush(t) \/ Top(t) \/ Drop(t)
                       \/ Handle(t) \/ Answer(t) \/ Pass(t)
    \/ \E t \in Threads : Try(t) \/ Get(t) \/ Judge(t) \/ Mark(t) \/ Watch(t) \/ Link(t) \/ Back(t)
    \/ ServiceDied \/ Reconnect \/ Leave \/ Die \/ Restart

Spec == Init /\ [][Next]_ipc

-----------------------------------------------------------------------------

(* A client that takes a dead server for ready learns of it: the notice is on *)
(* its way or being acted on, or a thread is about to look for the server.    *)
(* A server that died before its death could be linked is missed, and so may  *)
(* one be that two threads looked for at once.                                *)
NotDeaf ==
    ready /\ ~(up /\ proxy = life) =>
        crashed \/ unwatched \/ raced \/ due \/ \E t \in Threads : Connecting(t)

(* Every message carries what its handler needs.  A getter that fills in its  *)
(* argument says true exactly when a server answered it, a call that returns  *)
(* the answer itself tells of success only if a server answered it, and a     *)
(* setter that says false is one no server has carried out.  Left out are the *)
(* two calls that pass a buffer, and setFrameRate called while no server is   *)
(* to be found, which returns 0 as if it were done.  That getQmsVrrCap says   *)
(* false tells nothing: the answer was false, or there was none.              *)
Answered ==
    \A t \in Apps :
        /\ pc[t] = "handle" => Complete(call[t])
        /\ call[t] = "a getter" => said[t] = served[t]
        /\ call[t] = "a value" /\ said[t] => served[t]
        /\ call[t] = "a setter" /\ served[t] => said[t]

(* The server's record never counts more calls than are being served: a path  *)
(* that leaves a call behind would, ten calls later, have every call refused. *)
RecordFits == record <= leaving + Cardinality({t \in Apps : pc[t] \in {"handle", "pop"}})

(* The client can go on calling the server.                                   *)
Reachable == NotDeaf /\ RecordFits
=============================================================================
