---------------------------- MODULE DecoyServer -----------------------------
(***************************************************************************)
(* The decoys' listeners.  Every protocol but HTTP is served by a          *)
(* BoundedThreadingTCPServer: one thread per connection, a fixed number of *)
(* slots.  FTP uploads arrive on a listener of their own and reach the     *)
(* control connection through FTPDataBroker, by source address only; their *)
(* bytes go to the collector's quarantine before anything is told of them. *)
(***************************************************************************)
EXTENDS DecoyProtocols, FiniteSets, Functions

CONSTANTS
  Workloads,        \* sets of peers: each a sequence of scripts, one per connection
  Peers,            \* bound: connections in a workload
  MaxConnections,   \* max_connections of every listener
  MaxTurns,         \* MaxTurns[p]: readings the loop of protocol p allows; that of SSH has no limit
  BrokerDepth,      \* maxlen of a source's queue in FTPDataBroker
  UploadMax         \* FTP_UPLOAD_MAX_BYTES, in parts

ASSUME DecoyAssumption ==
  /\ Peers \in Nat
  /\ \A w \in Workloads : \E n \in 1..Peers : DOMAIN w = 1..n
  /\ \A w \in Workloads : \A c \in DOMAIN w :
       /\ w[c].proto \in Protocols
       /\ Len(w[c].input) \in Nat /\ DOMAIN w[c].input = 1..Len(w[c].input)
       /\ \A i \in DOMAIN w[c].input : CanRead(w[c].proto, i, w[c].input[i])
  /\ MaxConnections \in Nat \ {0}
  /\ MaxTurns \in [Protocols \ {"ssh"} -> Nat \ {0}]
  /\ {BrokerDepth, UploadMax} \subseteq Nat \ {0}

VARIABLES
  script,      \* script[c] = [proto, source, input]: what the peer of connection c does
  phase,       \* phase[c]: where the thread of connection c is
  conn,        \* conn[c]: the local variables of its handler
  slots,       \* slots[p]: slots of p's semaphore that are taken
  waiting,     \* waiting[s]: _items of the broker for source s
  log,         \* log[c]: events emitted for connection c, with the reading each tells
  kept,        \* uploads whose bytes the collector's quarantine stored
  taken,       \* history: the uploads STORs took, in the order they took them
  dropped      \* history: uploads the broker dropped unread

vars == <<script, phase, conn, slots, waiting, log, kept, taken, dropped>>

Conns == DOMAIN script
Sources == {script[c].source : c \in Conns}
Bounded == Protocols \ {"web"}      \* behind a BoundedThreadingTCPServer
Told == Bounded \ {"ftp_data"}      \* handlers that emit connection and connection.closed
Serving == {"serving", "silent", "storing", "uploading", "finishing", "closing"}

Upload(c, parts) == [of |-> c, parts |-> parts, tooLarge |-> parts > UploadMax]

NoUpload == [of |-> 0, parts |-> 0, tooLarge |-> FALSE]

(* turns: readings taken; held: text of an unfinished SSH line; userCut: the *)
(* user name held by FTP and Telnet was cut; upload: what is being stored.   *)
Fresh == [turns |-> 0, held |-> <<>>, userCut |-> FALSE, cut |-> FALSE,
          upload |-> NoUpload]

(* An event with its marks, the reading it tells of (0: none) and, of an     *)
(* upload, the connection its bytes came from (0: none).                     *)
Event(event, marked, reading) ==
  [event |-> event, marked |-> marked, reading |-> reading, of |-> 0]

Init ==
  /\ script \in Workloads
  /\ phase = [c \in Conns |-> "waiting"]
  /\ conn = [c \in Conns |-> Fresh]
  /\ slots = [p \in Bounded |-> 0]
  /\ waiting = [s \in Sources |-> <<>>]
  /\ log = [c \in Conns |-> <<>>]
  /\ kept = {} /\ taken = <<>> /\ dropped = {}

Proto(c) == script[c].proto
Read(c) == conn[c].turns
Reading(c) == script[c].input[Read(c) + 1]
HasMore(c) == Read(c) < Len(script[c].input)

-----------------------------------------------------------------------------

(* process_request, the handler's setup and its greeting, which a peer that  *)
(* is gone already cannot be sent.                                           *)
ProcessRequest(c) ==
  /\ phase[c] = "waiting"
  /\ Proto(c) \in Bounded => slots[Proto(c)] < MaxConnections
  /\ slots' = IF Proto(c) \in Bounded THEN [slots EXCEPT ![Proto(c)] = @ + 1] ELSE slots
  /\ log' = IF Proto(c) \in Told
              THEN [log EXCEPT ![c] = <<Event("connection", FALSE, 0)>>]
              ELSE log
  /\ \E gone \in BOOLEAN :
       phase' = [phase EXCEPT ![c] =
                   IF gone /\ Proto(c) \in Told THEN "finishing" ELSE "serving"]
  /\ UNCHANGED <<script, conn, waiting, kept, taken, dropped>>

(* No slot is free, or the thread could not be started: in that case the     *)
(* slot is given back before the connection is shut down.                    *)
Refuse(c) ==
  /\ phase[c] = "waiting"
  /\ Proto(c) \in Bounded
  /\ phase' = [phase EXCEPT ![c] = "refused"]
  /\ UNCHANGED <<script, conn, slots, waiting, log, kept, taken, dropped>>

(* What the handler of c makes of reading r.                                 *)
TurnOn(c, r) ==
  CASE Proto(c) = "generic" -> GenericTurn(r)
    [] Proto(c) = "smtp"    -> SmtpTurn(r)
    [] Proto(c) = "redis"   -> RedisTurn(r)
    [] Proto(c) = "mysql"   -> MysqlTurn(r)
    [] Proto(c) = "smb"     -> SmbTurn(r)
    [] Proto(c) = "telnet"  -> TelnetTurn(r, Read(c), conn[c].userCut)
    [] Proto(c) = "ftp"     -> FtpTurn(r, conn[c].userCut)
    [] Proto(c) = "web"     -> WebTurn(r)
    [] Proto(c) = "ssh"     -> IF Read(c) = 0 THEN SshLogin(r) ELSE SshTurn(conn[c].held, r)

(* The handler's variables after reading r.                                  *)
After(c, r) ==
  [conn[c] EXCEPT
     !.turns = @ + 1,
     !.userCut = IF r.verb = "USER" \/ (Proto(c) = "telnet" /\ Read(c) = 0) THEN r.cut ELSE @,
     !.cut = r.cut,
     !.upload = IF r.verb \in Uploads THEN Upload(c, 1) ELSE NoUpload]

AfterChunk(c, chunk) ==
  [conn[c] EXCEPT
     !.turns = @ + 1,
     !.held = IF EndsAt(chunk) = {} THEN LineIn(@, chunk) ELSE <<>>]

Emitted(c, turn) ==
  IF turn.event = None THEN log
  ELSE [log EXCEPT ![c] = Append(@, Event(turn.event, turn.marked, Read(c) + 1))]

(* Where the thread goes: the loop ends with its last reading, with the      *)
(* protocol, or with an OSError when the answer cannot be written.  An SSH   *)
(* shell reads for as long as its transport is active.                       *)
Onward(c, turn, lost) ==
  IF \/ lost /\ turn.next \in {"serving", "storing"}
     \/ turn.next = "serving" /\ Proto(c) # "ssh" /\ Read(c) + 1 >= MaxTurns[Proto(c)]
    THEN "finishing" ELSE turn.next

Turns(c, r, after) ==
  LET turn == TurnOn(c, r) IN
    /\ log' = Emitted(c, turn)
    /\ conn' = [conn EXCEPT ![c] = after]
    /\ \E lost \in BOOLEAN : phase' = [phase EXCEPT ![c] = Onward(c, turn, lost)]

(* One pass of a handler's loop: read, emit, answer.                         *)
Serve(c) ==
  /\ phase[c] = "serving"
  /\ Proto(c) # "ftp_data"
  /\ HasMore(c)
  /\ Turns(c, Reading(c),
           IF Proto(c) = "ssh" /\ Read(c) > 0 THEN AfterChunk(c, Reading(c))
                                              ELSE After(c, Reading(c)))
  /\ UNCHANGED <<script, slots, waiting, kept, taken, dropped>>

(* The peer closes its side.  readline returns an empty line: Telnet takes   *)
(* it for a user name or a password, the other handlers leave.               *)
PeerCloses(c) ==
  /\ phase[c] = "serving"
  /\ Proto(c) \notin {"ftp_data", "web"}
  /\ ~HasMore(c)
  /\ IF Proto(c) = "telnet"
       THEN LET blank == [verb |-> "BLANK", cut |-> FALSE] IN
              Turns(c, blank, After(c, blank))
       ELSE /\ phase' = [phase EXCEPT ![c] = "finishing"]
            /\ UNCHANGED <<conn, log>>
  /\ UNCHANGED <<script, slots, waiting, kept, taken, dropped>>

(* A shell has no end of its own: after the readings of its script, its peer *)
(* may go on sending, bytes without a line end too, and every chunk restarts *)
(* the timeout of recv.  It need not ever stop.                              *)
InShell(c) == Proto(c) = "ssh" /\ Read(c) > 0

FallSilent(c) ==
  /\ phase[c] = "serving"
  /\ InShell(c)
  /\ ~HasMore(c)
  /\ phase' = [phase EXCEPT ![c] = "silent"]
  /\ UNCHANGED <<script, conn, slots, waiting, log, kept, taken, dropped>>

(* Variants with a suffix hold a plausible defect each; no definition uses them. *)
TimeOut_WaitsForFtp(c) ==    \* no time limit on the FTP control connection
  /\ phase[c] = IF InShell(c) THEN "silent" ELSE "serving"
  /\ Proto(c) \notin {"ftp_data", "web", "ftp"}
  /\ ~HasMore(c)
  /\ phase' = [phase EXCEPT ![c] = "finishing"]
  /\ UNCHANGED <<script, conn, slots, waiting, log, kept, taken, dropped>>

(* Nothing comes for the socket's timeout: TimeoutError leaves handle, or    *)
(* is caught by it (generic, ssh).  In an SSH shell, only if the peer sends  *)
(* nothing more.                                                             *)
TimeOut(c) ==
  /\ phase[c] = IF InShell(c) THEN "silent" ELSE "serving"
  /\ Proto(c) \notin {"ftp_data", "web"}
  /\ ~HasMore(c)
  /\ phase' = [phase EXCEPT ![c] = "finishing"]
  /\ UNCHANGED <<script, conn, slots, waiting, log, kept, taken, dropped>>

-----------------------------------------------------------------------------
(* FTPDataHandler: the payload is put for the source whether the peer closed *)
(* after the last part, fell silent or reset the connection, or exceeded the *)
(* limit.  A full queue forgets its oldest upload.                           *)
Put(c) ==
  /\ phase[c] = "serving"
  /\ Proto(c) = "ftp_data"
  /\ \E parts \in 0..Len(script[c].input) :
       LET upload == Upload(c, parts)
           queue == waiting[script[c].source]
       IN /\ parts <= UploadMax + 1
          /\ waiting' = [waiting EXCEPT ![script[c].source] =
                           IF Len(queue) = BrokerDepth THEN Append(Tail(queue), upload)
                                                       ELSE Append(queue, upload)]
          /\ dropped' = IF Len(queue) = BrokerDepth THEN dropped \cup {Head(queue).of}
                                                    ELSE dropped
  /\ phase' = [phase EXCEPT ![c] = "closing"]
  /\ UNCHANGED <<script, conn, slots, log, kept, taken>>

Take_Peeks(c) ==             \* the upload is read but stays in the queue
  /\ phase[c] = "storing"
  /\ waiting[script[c].source] # <<>>
  /\ conn' = [conn EXCEPT ![c].upload = Head(waiting[script[c].source])]
  /\ taken' = Append(taken, Head(waiting[script[c].source]).of)
  /\ phase' = [phase EXCEPT ![c] = "uploading"]
  /\ UNCHANGED <<script, slots, waiting, log, kept, dropped>>

(* FTPDataBroker.take: STOR takes the source's oldest upload.                *)
Take(c) ==
  /\ phase[c] = "storing"
  /\ waiting[script[c].source] # <<>>
  /\ conn' = [conn EXCEPT ![c].upload = Head(waiting[script[c].source])]
  /\ waiting' = [waiting EXCEPT ![script[c].source] = Tail(@)]
  /\ taken' = Append(taken, Head(waiting[script[c].source]).of)
  /\ phase' = [phase EXCEPT ![c] = "uploading"]
  /\ UNCHANGED <<script, slots, log, kept, dropped>>

(* The reading in hand, once its upload is settled.                          *)
Settled(c, event, marked) ==
  /\ log' = [log EXCEPT ![c] =
               Append(@, [Event(event, marked, Read(c)) EXCEPT !.of = conn[c].upload.of])]
  /\ \E lost \in BOOLEAN :
       phase' = [phase EXCEPT ![c] =
                   IF Proto(c) = "web" \/ lost \/ Read(c) >= MaxTurns[Proto(c)]
                     THEN "finishing" ELSE "serving"]

(* take gives up after ten seconds without an upload.                        *)
TakeTimesOut(c) ==
  /\ phase[c] = "storing"
  /\ waiting[script[c].source] = <<>>
  /\ Settled(c, "ftp.upload_rejected", FALSE)
  /\ UNCHANGED <<script, conn, slots, waiting, kept, taken, dropped>>

Rejection(c) == IF Proto(c) = "web" THEN "web.upload_rejected" ELSE "ftp.upload_rejected"

(* quarantine_artifact: nothing is sent of an upload over the limit or       *)
(* empty; the collector stores or refuses; its answer may be lost.  The      *)
(* event that tells of a rejected FTP upload carries no marks.               *)
Sendable(c) == ~conn[c].upload.tooLarge /\ conn[c].upload.parts > 0

OddName(c) == script[c].input[Read(c)].verb \in OddNames

Keep(c, stores) == kept' = IF stores THEN kept \cup {conn[c].upload} ELSE kept

Quarantine(c) ==
  /\ phase[c] = "uploading"
  /\ Sendable(c) => ~OddName(c)
  /\ \E stores, answered \in BOOLEAN :
       /\ ~Sendable(c) => ~stores
       /\ Keep(c, stores)
       /\ Settled(c, IF stores /\ answered THEN "artifact.quarantined" ELSE Rejection(c),
                  conn[c].cut /\ (Proto(c) = "web" \/ (stores /\ answered)))
  /\ UNCHANGED <<script, conn, slots, waiting, taken, dropped>>

(* What it does not catch leaves the handler, or ends the web's request with *)
(* an error of Flask's, and no event tells of the upload: the ValueError of  *)
(* a name no header can carry, before anything is sent, and the              *)
(* IncompleteRead of an answer that breaks off.                              *)
QuarantineRaises(c) ==
  /\ phase[c] = "uploading"
  /\ Sendable(c)
  /\ \E stores \in BOOLEAN :
       /\ OddName(c) => ~stores
       /\ Keep(c, stores)
  /\ phase' = [phase EXCEPT ![c] = "finishing"]
  /\ UNCHANGED <<script, conn, slots, waiting, log, taken, dropped>>

-----------------------------------------------------------------------------
Finish_OnEvidence(c) ==      \* a session of which nothing was told is not closed either
  /\ phase[c] = "finishing"
  /\ log' = IF Proto(c) \in Told /\ Len(log[c]) > 1
              THEN [log EXCEPT ![c] = Append(@, Event("connection.closed", FALSE, 0))]
              ELSE log
  /\ phase' = [phase EXCEPT ![c] = "closing"]
  /\ UNCHANGED <<script, conn, slots, waiting, kept, taken, dropped>>

(* finish, which socketserver calls whether handle returned or raised.       *)
Finish(c) ==
  /\ phase[c] = "finishing"
  /\ log' = IF Proto(c) \in Told
              THEN [log EXCEPT ![c] = Append(@, Event("connection.closed", FALSE, 0))]
              ELSE log
  /\ phase' = [phase EXCEPT ![c] = "closing"]
  /\ UNCHANGED <<script, conn, slots, waiting, kept, taken, dropped>>

Release_ByHandler(c) ==      \* the handlers that tell of a connection release, the data handler forgets to
  /\ phase[c] = "closing"
  /\ slots' = IF Proto(c) \in Told THEN [slots EXCEPT ![Proto(c)] = @ - 1] ELSE slots
  /\ phase' = [phase EXCEPT ![c] = "closed"]
  /\ UNCHANGED <<script, conn, waiting, log, kept, taken, dropped>>

(* process_request_thread: the slot is released when the thread is done.     *)
Release(c) ==
  /\ phase[c] = "closing"
  /\ slots' = IF Proto(c) \in Bounded THEN [slots EXCEPT ![Proto(c)] = @ - 1] ELSE slots
  /\ phase' = [phase EXCEPT ![c] = "closed"]
  /\ UNCHANGED <<script, conn, waiting, log, kept, taken, dropped>>

Handle(c) ==
  \/ Serve(c) \/ TimeOut(c) \/ Put(c) \/ Take(c) \/ TakeTimesOut(c)
  \/ Quarantine(c) \/ QuarantineRaises(c) \/ Finish(c) \/ Release(c)

Next ==
  \E c \in Conns :
    ProcessRequest(c) \/ Refuse(c) \/ PeerCloses(c) \/ FallSilent(c) \/ Handle(c)

(* The threads run and their timeouts fire; peers owe nothing.               *)
Spec == Init /\ [][Next]_vars /\ \A c \in 1..Peers : WF_vars(c \in Conns /\ Handle(c))

-----------------------------------------------------------------------------
(* A slot is held by exactly the connections a thread serves, whatever way  *)
(* they end, so a listener neither wears out nor exceeds its limit           *)
(* (process_request, process_request_thread).                                *)
SlotsHeld ==
  \A p \in Bounded :
    slots[p] = Cardinality({c \in Conns : Proto(c) = p /\ phase[c] \in Serving})

(* The evidence of a connection that was served opens with `connection` and, *)
(* once its thread is done, closes with `connection.closed`, each once,      *)
(* whether the handler returned, timed out or lost its peer (handle, finish).*)
Positions(c, event) == {i \in DOMAIN log[c] : log[c][i].event = event}

(* finish tells of the end once, and after everything else.                  *)
Bookended ==
  \A c \in Conns :
    /\ Positions(c, "connection") =
         IF Proto(c) \in Told /\ phase[c] \in Serving \cup {"closed"} THEN {1} ELSE {}
    /\ Positions(c, "connection.closed") =
         IF Proto(c) \in Told /\ phase[c] \in {"closing", "closed"} THEN {Len(log[c])} ELSE {}

(* Readings a handler answers without an event of their own: an empty line,  *)
(* what FTP keeps for later or only negotiates, FTP's farewell, Telnet's     *)
(* first line, and what Flask answers by itself.                             *)
Untold(c, i) ==
  LET verb == script[c].input[i].verb IN
    \/ verb \in {"BLANK", "USER", "EPSV", "PASV", "PORT", "OTHER_METHOD"}
    \/ Proto(c) = "ftp" /\ verb = "QUIT"
    \/ Proto(c) = "telnet" /\ i = 1 /\ verb # "TOOLONG"

(* What an event quotes besides its own reading: the user name before it.    *)
Quotes(c, i) ==
  {i} \cup IF Proto(c) = "telnet" THEN {1}
           ELSE IF script[c].input[i].verb # "PASS" THEN {}
           ELSE {j \in 1..i : /\ script[c].input[j].verb = "USER"
                              /\ \A k \in j+1..i : script[c].input[k].verb # "USER"}

(* Every reading of a text protocol is told once and in the order read, and  *)
(* an event is marked exactly when a text it quotes was cut by its handler.  *)
(* What the code leaves out is left out here: a STOR or a web upload may end *)
(* untold, when its answer cannot be written or quarantine_artifact raises;  *)
(* a rejected FTP upload is told unmarked; and what the client and the       *)
(* quarantine shorten of the name and type of a RENAMED upload, its event    *)
(* never marks, against src/docs/CUSTOM_SENSORS.md:16.                       *)
ReadingsTold ==
  \A c \in {d \in Conns : Proto(d) \in (Told \ {"ssh"}) \cup {"web"}} :
    LET events == {i \in DOMAIN log[c] : log[c][i].reading \in DOMAIN script[c].input}
    IN /\ \A i, j \in events : i < j => log[c][i].reading < log[c][j].reading
       /\ \A n \in 1..Read(c) \cap DOMAIN script[c].input :
            \/ \E i \in events : log[c][i].reading = n
            \/ Untold(c, n)
            \/ n = Read(c) /\ script[c].input[n].verb \in Stores \cup Uploads
       /\ \A i \in events :
            \/ log[c][i].event \in {"sensor.input_rejected", "ftp.upload_rejected"}
            \/ log[c][i].marked = \E j \in Quotes(c, log[c][i].reading) : script[c].input[j].cut

(* An upload is used for one STOR, of the source that sent it: what a STOR   *)
(* took is neither waiting nor dropped, and no two STORs took the same       *)
(* (FTPDataBroker).  `artifact.quarantined` is told of bytes the collector   *)
(* holds, and no upload is told of twice (quarantine_artifact).              *)
Waiting == UNION {{waiting[s][i].of : i \in DOMAIN waiting[s]} : s \in Sources}

(* Broker and quarantine together, for STORs and web uploads of all peers.   *)
UploadsTold ==
  /\ \A i, j \in DOMAIN taken : taken[i] = taken[j] => i = j
  /\ Range(taken) \cap (Waiting \cup dropped) = {}
  /\ \A c \in Conns : \A i \in {k \in DOMAIN log[c] : log[c][k].of # 0} :
       /\ script[log[c][i].of].source = script[c].source
       /\ \A d \in Conns : \A j \in DOMAIN log[d] :
            log[d][j].of = log[c][i].of => <<c, i>> = <<d, j>>
       /\ log[c][i].event = "artifact.quarantined" =>
            \E k \in kept : k.of = log[c][i].of /\ ~k.tooLarge

(* Every connection that was accepted comes to its end and frees its slot,   *)
(* although its peer may fall silent at any point (the timeouts of setup,    *)
(* take and the channel).  In an SSH shell it has to fall silent for that:   *)
(* one that keeps sending keeps its slot, for nothing in the code ends it.   *)
KeepsSending(c) == phase[c] = "serving" /\ Proto(c) = "ssh" /\ script[c].input # <<>>

(* The peers of every other protocol end whatever they send.                 *)
EveryConnectionEnds ==
  \A c \in 1..Peers :
    (c \in Conns /\ phase[c] \in Serving /\ ~KeepsSending(c)) ~> (c \in Conns /\ phase[c] = "closed")

(* src/docs/CUSTOM_SENSORS.md:16, of SSH: every command line that was read   *)
(* is told.  A line is a text with its end, in one chunk or over several.    *)
LinesRead(c) ==
  {at \in (2..Read(c)) \X (1..9) :
     LET i == at[1]
         k == at[2]
         input == script[c].input IN
       /\ k \in DOMAIN input[i] /\ input[i][k] = "end"
       /\ IF k > 1 THEN input[i][k - 1] # "end"
          ELSE i > 2 /\ input[i - 1][Len(input[i - 1])] # "end"}

(* Of an SSH connection, at least one event for each line.                   *)
CommandsTold ==
  \A c \in Conns : Proto(c) = "ssh" =>
    Cardinality(Positions(c, "command")) >= Cardinality(LinesRead(c))
=============================================================================
