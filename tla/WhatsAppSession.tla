--------------------------- MODULE WhatsAppSession ---------------------------
(***************************************************************************)
(* The WhatsApp session of one QR channel: the sockets opened for it, the  *)
(* session in the map `sessions', the retry timers, the credentials on     *)
(* disk and in the row, and the status of the row.  Connecting,            *)
(* reconnecting, deleting and the handlers of connection events all wait   *)
(* between their steps, and find the session by the id of the channel.     *)
(* The channel has conversations, so that its row is never removed.        *)
(***************************************************************************)
EXTENDS Naturals

CONSTANTS
    Sockets,       \* sockets, each with the session object it belongs to
    NoSocket,
    Slots,         \* bound: calls and handlers under way
    MaxRetries,    \* MAX_RETRIES
    MaxTimers,     \* bound: retry timers that are armed
    MaxVisits,     \* bound: requests of the merchant
    MaxLosses      \* bound: failed statements and look-ups, restarts

ASSUME WhatsAppSessionAssumption ==
    /\ NoSocket \notin Sockets /\ MaxRetries \in Nat \ {0} /\ MaxTimers \in Nat \ {0}
    /\ MaxVisits \in Nat /\ MaxLosses \in Nat

VARIABLES
    channel,    \* status of the row, and whether sessionData is there
    files,      \* the credentials of a paired device are on disk
    linked,     \* the phone still knows that device
    session,    \* whose session the map holds, or NoSocket
    sock,       \* each socket and its session object
    timers,     \* retry timers armed
    call        \* the calls and handlers under way

VARIABLES       \* observation only
    overlapped, \* two calls were replacing the session at once
    shared,     \* two calls were under way at once
    purged,     \* the session was deleted as a duplicate and the row kept
    visits, losses

waVars == <<channel, files, linked, session, sock, timers, call, overlapped, shared,
            purged, visits, losses>>

ChannelStatuses == {"connecting", "qr_ready", "connected", "disconnected"}
ChannelStatus == {"PENDING", "CONNECTED", "DISCONNECTED"}
CallKind == {"none", "connect", "disconnect", "purge", "poll", "retry", "opened",
             "drop", "loggedOut", "replaced", "boot"}
CallPc == {"begin", "wipe", "pending", "renew", "rewipe", "create", "wait", "record",
           "keep"}

WhatsAppSessionTypeOK ==
    /\ channel \in [status : ChannelStatus, data : BOOLEAN]
    /\ files \in BOOLEAN /\ linked \in BOOLEAN
    /\ session \in Sockets \union {NoSocket}
    /\ sock \in [Sockets -> [net : {"closed", "connecting", "open"},
                             listening : BOOLEAN, paired : BOOLEAN,
                             status : ChannelStatuses, retries : 0..MaxRetries,
                             drawing : BOOLEAN]]
    /\ timers \in 0..MaxTimers
    /\ call \in [Slots -> [kind : CallKind, pc : CallPc,
                           of : Sockets \union {NoSocket}, out : ChannelStatus]]
    /\ overlapped \in BOOLEAN /\ shared \in BOOLEAN /\ purged \in BOOLEAN
    /\ visits \in 0..MaxVisits /\ losses \in 0..MaxLosses

NoCall == [kind |-> "none", pc |-> "begin", of |-> NoSocket, out |-> "PENDING"]
Unused == [net |-> "closed", listening |-> FALSE, paired |-> FALSE,
           status |-> "disconnected", retries |-> 0, drawing |-> FALSE]

WhatsAppSessionInit ==
    /\ channel = [status |-> "DISCONNECTED", data |-> FALSE]
    /\ files = FALSE /\ linked = FALSE
    /\ session = NoSocket /\ sock = [s \in Sockets |-> Unused] /\ timers = 0
    /\ call = [c \in Slots |-> NoCall]
    /\ overlapped = FALSE /\ shared = FALSE /\ purged = FALSE
    /\ visits = 0 /\ losses = 0

Busy == {c \in Slots : call[c].kind # "none"}
Replacing == {c \in Slots : call[c].pc \in {"rewipe", "create"}}

Miss == losses < MaxLosses /\ losses' = losses + 1
Visit == visits < MaxVisits /\ visits' = visits + 1

Start(c, kind, pc, of) ==
    /\ call[c].kind = "none"
    /\ call' = [call EXCEPT ![c] = [NoCall EXCEPT !.kind = kind, !.pc = pc, !.of = of]]
    /\ shared' = (shared \/ Busy # {})
Over(c) == call' = [call EXCEPT ![c] = NoCall]
Continue(c, pc) == call' = [call EXCEPT ![c].pc = pc]
Answer(c, status) == call' = [call EXCEPT ![c].pc = "record", ![c].out = status]

(* Mutant: the listeners of the socket are left in place. *)
CleanUpLoosely == /\ session' = NoSocket /\ UNCHANGED sock

(* cleanupSession: the listeners are removed before the socket is ended and *)
(* the session leaves the map, where nobody sees its code any more; its     *)
(* second of delay is between two steps.                                    *)
CleanUp ==
    /\ session' = NoSocket
    /\ sock' = [s \in Sockets |->
                  IF s = session THEN [sock[s] EXCEPT !.listening = FALSE,
                                                      !.net = "closed",
                                                      !.drawing = FALSE]
                                 ELSE sock[s]]

(* The rest of fullCleanupSession: the files, and sessionData if it can.    *)
Wipe(c, next) ==
    /\ files' = FALSE
    /\ \/ channel' = [channel EXCEPT !.data = FALSE] /\ UNCHANGED losses
       \/ Miss /\ UNCHANGED channel
    /\ IF next = "over" THEN Over(c) ELSE Continue(c, next)
    /\ UNCHANGED <<linked, session, sock, timers, overlapped, shared, purged, visits>>

Idle(s) == /\ s # session /\ ~sock[s].listening /\ ~sock[s].drawing
           /\ \A c \in Slots : call[c].of # s

(* A socket with the credentials on disk, or new ones; its session is set   *)
(* over whatever the map holds.                                             *)
OpenSocket ==
    \E s \in Sockets :
        /\ Idle(s)
        /\ sock' = [sock EXCEPT ![s] = [net |-> "connecting", listening |-> TRUE,
                      paired |-> files, status |-> "connecting", retries |-> 0,
                      drawing |-> FALSE]]
        /\ session' = s

-----------------------------------------------------------------------------
(* createWhatsAppQRChannel, on a row that is not CONNECTED. *)

Connect(c) ==
    /\ channel.status # "CONNECTED" /\ Visit
    /\ Start(c, "connect", "wipe", NoSocket)
    /\ CleanUp
    /\ UNCHANGED <<channel, files, linked, timers, overlapped, purged, losses>>

WipeFirst(c) == call[c].kind = "connect" /\ call[c].pc = "wipe" /\ Wipe(c, "pending")

SavePending(c) ==
    /\ call[c].pc = "pending"
    /\ \/ /\ channel' = [status |-> "PENDING", data |-> FALSE]
          /\ Continue(c, "renew") /\ UNCHANGED losses
       \/ Miss /\ Over(c) /\ UNCHANGED channel
    /\ UNCHANGED <<files, linked, session, sock, timers, overlapped, shared, purged,
                   visits>>

(* initSession cleans up once more. *)
InitSession(c) ==
    /\ call[c].pc = "renew"
    /\ CleanUp
    /\ Continue(c, "rewipe")
    /\ overlapped' = (overlapped \/ Replacing # {})
    /\ UNCHANGED <<channel, files, linked, timers, shared, purged, visits, losses>>

WipeAgain(c) == call[c].pc = "rewipe" /\ Wipe(c, "create")

(* A failure forgets the session of the channel, whoever opened it. *)
CreateBaileysSession(c) ==
    /\ call[c].kind = "connect" /\ call[c].pc = "create"
    /\ \/ OpenSocket /\ Continue(c, "wait") /\ UNCHANGED losses
       \/ Miss /\ session' = NoSocket /\ Answer(c, "DISCONNECTED") /\ UNCHANGED sock
    /\ UNCHANGED <<channel, files, linked, timers, overlapped, shared, purged, visits>>

(* The checker looks at the session of the channel every half second; after *)
(* ninety seconds it is given up.                                           *)
Check(c) ==
    /\ call[c].pc = "wait"
    /\ \/ /\ session = NoSocket /\ Answer(c, "DISCONNECTED") /\ UNCHANGED sock
       \/ /\ session # NoSocket
          /\ LET status == sock[session].status
             IN \/ status = "qr_ready" /\ Answer(c, "PENDING") /\ UNCHANGED sock
                \/ status = "connected" /\ Answer(c, "CONNECTED") /\ UNCHANGED sock
                \/ status = "disconnected" /\ Answer(c, "DISCONNECTED")
                                           /\ UNCHANGED sock
                \/ /\ status = "connecting" /\ Answer(c, "DISCONNECTED")
                   /\ sock' = [sock EXCEPT ![session].status = "disconnected"]
    /\ UNCHANGED <<channel, files, linked, session, timers, overlapped, shared, purged,
                   visits, losses>>

(* A failed statement is answered with another, which says DISCONNECTED.    *)
RecordConnect(c) ==
    /\ call[c].kind = "connect" /\ call[c].pc = "record"
    /\ \/ channel' = [channel EXCEPT !.status = call[c].out]
          /\ Over(c) /\ UNCHANGED losses
       \/ /\ Miss /\ UNCHANGED channel
          /\ IF call[c].out = "DISCONNECTED" THEN Over(c) ELSE Answer(c, "DISCONNECTED")
    /\ UNCHANGED <<files, linked, session, sock, timers, overlapped, shared, purged,
                   visits>>

-----------------------------------------------------------------------------
(* The other requests. *)

(* disconnect and softDisconnect; or the deletion of the session of a       *)
(* duplicate, whose row is kept for its conversations.                      *)
DeleteSession(c) ==
    /\ Visit
    /\ \/ Start(c, "disconnect", "wipe", NoSocket)
       \/ Start(c, "purge", "wipe", NoSocket)
    /\ CleanUp
    /\ UNCHANGED <<channel, files, linked, timers, overlapped, purged, losses>>

WipeDeleted(c) ==
    /\ call[c].kind = "disconnect" /\ call[c].pc = "wipe"
    /\ Wipe(c, "record")

EndPurge(c) ==
    /\ call[c].kind = "purge"
    /\ files' = FALSE /\ channel' = [channel EXCEPT !.data = FALSE]
    /\ purged' = TRUE
    /\ Over(c)
    /\ UNCHANGED <<linked, session, sock, timers, overlapped, shared, visits, losses>>

RecordDisconnect(c) ==
    /\ call[c].kind = "disconnect" /\ call[c].pc = "record"
    /\ \/ channel' = [status |-> "DISCONNECTED", data |-> FALSE] /\ UNCHANGED losses
       \/ Miss /\ UNCHANGED channel
    /\ Over(c)
    /\ UNCHANGED <<files, linked, session, sock, timers, overlapped, shared, purged,
                   visits>>

(* getWhatsAppSessionStatus: a connected session, and then its row. *)
Poll(c) ==
    /\ Visit
    /\ session # NoSocket /\ sock[session].status = "connected"
    /\ Start(c, "poll", "record", NoSocket)
    /\ UNCHANGED <<channel, files, linked, session, sock, timers, overlapped, purged,
                   losses>>

(* The row after `open', which logs its errors, or after a poll. *)
RecordConnected(c) ==
    /\ call[c].kind \in {"opened", "poll"} /\ call[c].pc = "record"
    /\ \/ channel' = [channel EXCEPT !.status = "CONNECTED"] /\ UNCHANGED losses
       \/ Miss /\ UNCHANGED channel
    /\ IF call[c].kind = "opened" THEN Continue(c, "keep") ELSE Over(c)
    /\ UNCHANGED <<files, linked, session, sock, timers, overlapped, shared, purged,
                   visits>>

(* saveSessionToDB, which logs its errors: the credentials follow the row   *)
(* of `open'.                                                               *)
SaveSessionToDB(c) ==
    /\ call[c].kind = "opened" /\ call[c].pc = "keep"
    /\ \/ channel' = [channel EXCEPT !.data = @ \/ files] /\ UNCHANGED losses
       \/ Miss /\ UNCHANGED channel
    /\ Over(c)
    /\ UNCHANGED <<files, linked, session, sock, timers, overlapped, shared, purged,
                   visits>>

-----------------------------------------------------------------------------
(* Events of a socket: the handler takes the session the map holds. *)

Qr(s) ==
    /\ sock[s].net = "connecting" /\ sock[s].listening /\ ~sock[s].paired
    /\ session # NoSocket
    /\ sock' = [sock EXCEPT ![session].drawing = TRUE]
    /\ UNCHANGED <<channel, files, linked, session, timers, call, overlapped, shared,
                   purged, visits, losses>>

(* The image is ready, and that session says so, whatever has become of it. *)
QrDrawn(s) ==
    /\ sock[s].drawing
    /\ sock' = [sock EXCEPT ![s].drawing = FALSE, ![s].status = "qr_ready"]
    /\ UNCHANGED <<channel, files, linked, session, timers, call, overlapped, shared,
                   purged, visits, losses>>

Open(s, c) ==
    /\ sock[s].net = "connecting" /\ sock[s].listening /\ sock[s].paired /\ linked
    /\ IF session = NoSocket
         THEN sock' = [sock EXCEPT ![s].net = "open"] /\ UNCHANGED <<call, shared>>
         ELSE /\ sock' = [t \in Sockets |->
                 LET net == IF t = s THEN "open" ELSE sock[t].net
                 IN IF t = session
                      THEN [sock[t] EXCEPT !.status = "connected", !.retries = 0,
                                           !.net = net]
                      ELSE [sock[t] EXCEPT !.net = net]]
              /\ Start(c, "opened", "record", NoSocket)
    /\ UNCHANGED <<channel, files, linked, session, timers, overlapped, purged, visits,
                   losses>>

(* A close event, which a channel without a session ignores. *)
Closed(s, c, why) ==
    /\ sock' = [sock EXCEPT ![s].net = "closed"]
    /\ IF session = NoSocket THEN UNCHANGED <<call, shared>>
                             ELSE Start(c, why, "begin", session)

(* The code shown is scanned once the request has been answered: the device *)
(* is paired, its credentials are saved, and WhatsApp asks for a restart.   *)
Scan(s, c) ==
    /\ sock[s].net = "connecting" /\ sock[s].listening /\ ~sock[s].paired
    /\ session # NoSocket /\ sock[session].status = "qr_ready"
    /\ \A d \in Slots : call[d].kind # "connect"
    /\ linked' = TRUE /\ files' = TRUE /\ channel' = [channel EXCEPT !.data = TRUE]
    /\ Closed(s, c, "drop")
    /\ UNCHANGED <<session, timers, overlapped, purged, visits, losses>>

(* The network, the code's timeout, the phone's owner or another device. *)
Close(s, c) ==
    /\ sock[s].net # "closed" /\ sock[s].listening
    /\ \/ Closed(s, c, "drop") /\ UNCHANGED linked
       \/ sock[s].paired /\ Closed(s, c, "loggedOut") /\ linked' = FALSE
       \/ sock[s].net = "open" /\ Closed(s, c, "replaced") /\ UNCHANGED linked
    /\ UNCHANGED <<channel, files, session, timers, overlapped, purged, visits, losses>>

(* loggedOut: deleteSession, then the row. *)
LogOut(c) ==
    /\ call[c].kind = "loggedOut" /\ call[c].pc = "begin"
    /\ session' = NoSocket
    /\ sock' = [s \in Sockets |->
                  [sock[s] EXCEPT !.status = IF s = call[c].of THEN "disconnected" ELSE @,
                     !.listening = IF s = session THEN FALSE ELSE @,
                     !.net = IF s = session THEN "closed" ELSE @,
                     !.drawing = IF s = session THEN FALSE ELSE @]]
    /\ Continue(c, "wipe")
    /\ UNCHANGED <<channel, files, linked, timers, overlapped, shared, purged, visits,
                   losses>>

WipeLoggedOut(c) ==
    /\ call[c].kind = "loggedOut" /\ call[c].pc = "wipe"
    /\ Wipe(c, "record")

(* Mutant: the handler returns before it marks the row. *)
GiveUpQuietly(c) ==
    /\ sock' = [sock EXCEPT ![call[c].of].status = "disconnected"]
    /\ Over(c)

GiveUpSession(c) ==
    /\ sock' = [sock EXCEPT ![call[c].of].status = "disconnected"]
    /\ Continue(c, "record")

(* connectionReplaced: the socket and its session stay where they are. *)
Replace(c) ==
    /\ call[c].kind = "replaced" /\ call[c].pc = "begin"
    /\ GiveUpSession(c)
    /\ UNCHANGED <<channel, files, linked, session, timers, overlapped, shared, purged,
                   visits, losses>>

(* Mutant: the retry is counted, and no timer is armed. *)
DropTimerless(c) ==
    /\ call[c].kind = "drop" /\ call[c].pc = "begin"
    /\ channel' = [channel EXCEPT !.data = @ \/ files]
    /\ IF sock[call[c].of].retries < MaxRetries
         THEN /\ sock' = [sock EXCEPT ![call[c].of].retries = @ + 1]
              /\ Over(c) /\ UNCHANGED timers
         ELSE GiveUpSession(c) /\ UNCHANGED timers
    /\ UNCHANGED <<files, linked, session, overlapped, shared, purged, visits, losses>>

(* Any other reason: the credentials are saved, and a retry is armed unless *)
(* the session has had its retries.                                         *)
Drop(c) ==
    /\ call[c].kind = "drop" /\ call[c].pc = "begin"
    /\ channel' = [channel EXCEPT !.data = @ \/ files]
    /\ IF sock[call[c].of].retries < MaxRetries
         THEN /\ timers < MaxTimers /\ timers' = timers + 1
              /\ sock' = [sock EXCEPT ![call[c].of].retries = @ + 1]
              /\ Over(c)
         ELSE GiveUpSession(c) /\ UNCHANGED timers
    /\ UNCHANGED <<files, linked, session, overlapped, shared, purged, visits, losses>>

(* markChannelDisconnected *)
MarkChannelDisconnected(c) ==
    /\ call[c].kind \in {"loggedOut", "replaced", "drop", "boot"}
    /\ call[c].pc = "record"
    /\ \/ channel' = [channel EXCEPT !.status = "DISCONNECTED"] /\ UNCHANGED losses
       \/ Miss /\ UNCHANGED channel
    /\ Over(c)
    /\ UNCHANGED <<files, linked, session, sock, timers, overlapped, shared, purged,
                   visits>>

-----------------------------------------------------------------------------
(* The retry timer, which nothing disarms. *)
FireTimer(c) ==
    /\ timers > 0 /\ timers' = timers - 1
    /\ Start(c, "retry", "create", NoSocket)
    /\ CleanUp
    /\ overlapped' = (overlapped \/ Replacing # {})
    /\ UNCHANGED <<channel, files, linked, purged, visits, losses>>

(* restoreSession; a failed retry says so in the session it finds, if any,  *)
(* and a failed start-up in the row.                                        *)
RestoreSession(c) ==
    /\ call[c].kind \in {"retry", "boot"} /\ call[c].pc = "create"
    /\ \/ OpenSocket /\ Over(c) /\ UNCHANGED losses
       \/ /\ Miss /\ UNCHANGED session
          /\ IF call[c].kind = "boot"
               THEN Continue(c, "record") /\ UNCHANGED sock
               ELSE /\ Over(c)
                    /\ sock' = [s \in Sockets |->
                         IF s = session THEN [sock[s] EXCEPT !.status = "disconnected"]
                                        ELSE sock[s]]
    /\ UNCHANGED <<channel, files, linked, timers, overlapped, shared, purged, visits>>

(* The process ends, in order or not, and the next one, on the same disk or *)
(* another, takes up a CONNECTED channel if it finds credentials.           *)
Restarted(c) ==
    /\ Miss
    /\ session' = NoSocket /\ timers' = 0
    /\ sock' = [s \in Sockets |-> Unused]
    /\ \E saved \in {channel.data, channel.data \/ (session # NoSocket /\ files)},
          kept \in {files, FALSE} :
         /\ channel' = [channel EXCEPT !.data = saved]
         /\ files' = (kept \/ (channel.status = "CONNECTED" /\ saved))
         /\ call' = [d \in Slots |->
              IF d # c \/ channel.status # "CONNECTED" THEN NoCall
              ELSE [NoCall EXCEPT !.kind = "boot",
                      !.pc = IF kept \/ saved THEN "create" ELSE "record"]]
    /\ UNCHANGED <<linked, overlapped, shared, purged, visits>>

WhatsAppSessionNext ==
    \/ \E c \in Slots :
         \/ Connect(c) \/ WipeFirst(c) \/ SavePending(c) \/ InitSession(c) \/ WipeAgain(c)
         \/ CreateBaileysSession(c) \/ Check(c) \/ RecordConnect(c)
         \/ DeleteSession(c) \/ WipeDeleted(c) \/ EndPurge(c) \/ RecordDisconnect(c)
         \/ Poll(c) \/ RecordConnected(c) \/ SaveSessionToDB(c)
         \/ LogOut(c) \/ WipeLoggedOut(c) \/ Replace(c) \/ Drop(c)
         \/ MarkChannelDisconnected(c) \/ FireTimer(c) \/ RestoreSession(c)
         \/ Restarted(c)
         \/ \E s \in Sockets : Open(s, c) \/ Scan(s, c) \/ Close(s, c)
    \/ \E s \in Sockets : Qr(s) \/ QrDrawn(s)

WhatsAppSessionSpec == WhatsAppSessionInit /\ [][WhatsAppSessionNext]_waVars

-----------------------------------------------------------------------------
(* Two sockets of a channel listen at once only if two calls were replacing *)
(* the session at once: each of them cleans up before it waits, and sets    *)
(* its own session afterwards (cleanupSession, line 556;                    *)
(* createBaileysSession, line 475).                                         *)
OneSocket ==
    \A s, t \in Sockets : sock[s].listening /\ sock[t].listening /\ s # t => overlapped

(* A session whose socket is closed is given up, or a handler or a timer is *)
(* about to replace it: a channel does not go on taking messages that it    *)
(* cannot send (handleConnectionUpdate, line 728).                          *)
DeadIsReplaced ==
    session # NoSocket /\ ~overlapped /\ sock[session].net = "closed"
      => \/ sock[session].status = "disconnected" \/ timers > 0
         \/ \E c \in Slots : call[c].of = session

(* At rest, and not about to connect, the row says CONNECTED exactly when   *)
(* the session is, unless two calls were under way at once, a statement     *)
(* failed, or the session was deleted as a duplicate                        *)
(* (markChannelDisconnected, line 362).                                     *)
AtRest == /\ Busy = {} /\ timers = 0
          /\ session # NoSocket => sock[session].status # "connecting"
RowAgrees ==
    AtRest /\ ~shared /\ ~purged /\ losses = 0
      => (channel.status = "CONNECTED"
            <=> session # NoSocket /\ sock[session].status = "connected")

-----------------------------------------------------------------------------
(* The inductive invariants behind them *)

(* Unless two calls were replacing it at once, only the socket of the       *)
(* session listens, and there is no session while a call is replacing it.   *)
SocketInv ==
    ~overlapped =>
      /\ \A s \in Sockets : sock[s].listening => s = session
      /\ \A c, d \in Replacing : c = d
      /\ Replacing # {} => session = NoSocket

(* A closed session that is not given up has a timer, or a handler that     *)
(* has not begun; only the handlers of a close event hold a session.        *)
ClosedInv ==
    /\ \A c \in Slots : call[c].of # NoSocket
                          => call[c].kind \in {"drop", "loggedOut", "replaced"}
    /\ session # NoSocket /\ ~overlapped /\ sock[session].net = "closed"
         => \/ sock[session].status = "disconnected" \/ timers > 0
            \/ \E c \in Slots : call[c].of = session /\ call[c].pc = "begin"

(* The session whose code is being drawn is not paired: when its socket     *)
(* closes, it is not given up, since this is the first time it has closed.  *)
DrawnInv ==
    session # NoSocket /\ ~overlapped /\ ~sock[session].paired =>
      /\ sock[session].net # "open"
      /\ \A c \in Slots : call[c].of = session /\ call[c].pc = "begin"
                            => call[c].kind = "drop"
      /\ \A c, d \in Slots : call[c].of = session /\ call[c].pc = "begin"
            /\ call[d].of = session /\ call[d].pc = "begin" => c = d
      /\ IF sock[session].net # "closed"
           THEN /\ sock[session].retries = 0
                /\ \A c \in Slots : call[c].of # session
           ELSE \/ timers > 0
                \/ /\ sock[session].retries = 0
                   /\ \E c \in Slots : call[c].of = session /\ call[c].pc = "begin"
DrawingInv ==
    /\ session # NoSocket /\ ~overlapped /\ sock[session].drawing
         => ~sock[session].paired
    /\ DrawnInv

(* While one call at a time is under way, none fails and no duplicate is    *)
(* deleted: the session is connected only if the row says so, and a row     *)
(* that says so has its credentials and a session that is connected, or     *)
(* will be after a timer or the handshake.  A call that changes one of the  *)
(* two knows what the other says.                                           *)
InTouch == session # NoSocket /\ sock[session].status = "connected"
SaysConnected == channel.status = "CONNECTED"
Agreed ==
    /\ InTouch => SaysConnected
    /\ SaysConnected =>
         /\ files
         /\ \/ timers > 0 \/ InTouch
            \/ /\ session # NoSocket /\ sock[session].paired
               /\ sock[session].status = "connecting"
CallAgrees(c) ==
    \/ /\ call[c].kind = "connect" /\ ~SaysConnected /\ ~InTouch
       /\ \/ call[c].pc = "wait"
          \/ call[c].pc = "record" /\ call[c].out # "CONNECTED"
          \/ session = NoSocket /\ call[c].pc \in {"wipe", "pending", "renew", "rewipe",
                                                   "create"}
    \/ /\ call[c].kind \in {"disconnect", "purge", "loggedOut"}
       /\ session = NoSocket /\ call[c].pc \in {"wipe", "record"}
    \/ call[c].kind \in {"poll", "opened"} /\ InTouch /\ call[c].pc = "record"
    \/ call[c].kind = "opened" /\ Agreed /\ call[c].pc = "keep"
    \/ /\ call[c].kind \in {"drop", "replaced"}
       /\ call[c].of = session /\ session # NoSocket
       /\ \/ call[c].pc = "begin" /\ Agreed
          \/ call[c].pc = "record" /\ ~InTouch
    \/ call[c].kind = "loggedOut" /\ call[c].pc = "begin"
    \/ /\ call[c].kind = "retry" /\ call[c].pc = "create" /\ session = NoSocket
       /\ SaysConnected => files
RowInv ==
    ~shared /\ ~purged /\ losses = 0 =>
      /\ ~overlapped
      /\ \A c \in Slots \ Busy : call[c] = NoCall
      /\ \A c, d \in Busy : c = d
      /\ session # NoSocket /\ sock[session].paired => files
      /\ InTouch => sock[session].paired
      /\ Busy = {} => Agreed
      /\ \A c \in Busy : CallAgrees(c)
=============================================================================
