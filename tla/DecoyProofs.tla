---------------------------- MODULE DecoyProofs -----------------------------
(***************************************************************************)
(* Proofs about DecoyServer, for any set of peers, any number of slots,    *)
(* and any depth of the broker's queues.                                   *)
(***************************************************************************)
EXTENDS DecoyServer, TLAPS, FiniteSetTheorems, SequenceTheorems

Phases == Serving \cup {"waiting", "refused", "closed"}
Readers == Protocols \ {"ftp_data"}      \* handlers with a loop of readings

(* All a handler can emit.                                                   *)
EventNames ==
  TurnEvents \cup {"connection", "connection.closed", "ftp.upload_rejected",
                   "artifact.quarantined"}
Tellings == [event : EventNames, marked : BOOLEAN, reading : Nat, of : Nat]

UploadSet == [of : Nat, parts : Nat, tooLarge : BOOLEAN]
Handlers == [turns : Nat, held : Seq({"text", "exit", "end"}), userCut : BOOLEAN,
             cut : BOOLEAN, upload : UploadSet]

(***************************************************************************)
(* The values of the variables.                                            *)
(***************************************************************************)
ValuesOK ==
  /\ script \in Workloads
  /\ phase \in [Conns -> Phases]
  /\ conn \in [Conns -> Handlers]
  /\ log \in [Conns -> Seq(Tellings)]
  /\ waiting \in [Sources -> Seq(UploadSet)]
  /\ slots \in [Bounded -> Nat]
  /\ taken \in Seq(Nat)

(***************************************************************************)
(* An upload is with the broker only once its connection is done with, in  *)
(* one queue of its own source or dropped from it.                         *)
(***************************************************************************)
Sent(d, s) ==
  /\ d \in Conns /\ Proto(d) = "ftp_data" /\ script[d].source = s
  /\ phase[d] \in {"closing", "closed"}

Ids(queue) == {queue[i].of : i \in DOMAIN queue}
Distinct(queue) == \A i, j \in DOMAIN queue : queue[i].of = queue[j].of => i = j

BrokerOK ==
  /\ \A s \in Sources :
       /\ Distinct(waiting[s]) /\ \A d \in Ids(waiting[s]) : Sent(d, s)
       /\ Ids(waiting[s]) \cap (dropped \cup Range(taken)) = {}
  /\ \A d \in dropped \cup Range(taken) : d \in Conns /\ Sent(d, script[d].source)
  /\ Range(taken) \cap dropped = {}
  /\ \A i, j \in DOMAIN taken : taken[i] = taken[j] => i = j

(***************************************************************************)
(* What a handler stores is its own upload, on the web, or one that it     *)
(* took and no other handler has; what it told of it was in its hand.      *)
(***************************************************************************)
Owns(c, of, used) ==
  \/ Proto(c) = "web" /\ of = c
  \/ Proto(c) = "ftp" /\ of \in used /\ script[of].source = script[c].source

Ended(c) == phase[c] \in {"finishing", "closing", "closed"}

Unused(of) ==
  \A d \in Conns :
    /\ phase[d] = "uploading" => conn[d].upload.of # of
    /\ \A j \in DOMAIN log[d] : log[d][j].of # of

HandsOK ==
  \A c \in Conns :
    /\ phase[c] = "storing" => Proto(c) = "ftp" /\ conn[c].upload.of = 0
    /\ phase[c] = "uploading" =>
         /\ conn[c].upload.of # 0 /\ Owns(c, conn[c].upload.of, Range(taken))
         /\ \A d \in Conns :
              /\ phase[d] = "uploading" /\ conn[d].upload.of = conn[c].upload.of => d = c
              /\ \A j \in DOMAIN log[d] : log[d][j].of # conn[c].upload.of

TellingsOK ==
  \A c \in Conns : \A i \in DOMAIN log[c] :
    log[c][i].of # 0 =>
      /\ Owns(c, log[c][i].of, Range(taken))
      /\ Proto(c) = "web" => Ended(c)
      /\ \A d \in Conns : \A j \in DOMAIN log[d] :
           log[d][j].of = log[c][i].of => d = c /\ j = i
      /\ log[c][i].event = "artifact.quarantined" =>
           \E k \in kept : k.of = log[c][i].of /\ ~k.tooLarge

(***************************************************************************)
(* The readings of a text protocol: the last one may be in a STOR's or an  *)
(* upload's hands, every other one is told or needs no event.              *)
(***************************************************************************)
Texts == {c \in Conns : Proto(c) \in (Told \ {"ssh"}) \cup {"web"}}

Ordered(s, last) ==
  /\ \A i \in DOMAIN s : s[i].reading <= last
  /\ \A i, j \in DOMAIN s :
       i < j /\ s[i].reading > 0 /\ s[j].reading > 0 => s[i].reading < s[j].reading

Cut(c, n) == \E j \in Quotes(c, n) : script[c].input[j].cut

MarksOK(c, s) ==
  \A i \in DOMAIN s :
    s[i].reading \in DOMAIN script[c].input =>
      \/ s[i].event \in {"sensor.input_rejected", "ftp.upload_rejected"}
      \/ s[i].marked = Cut(c, s[i].reading)

Quoted(s, n) == \E i \in DOMAIN s : s[i].reading = n
Stored(c, n) == script[c].input[n].verb \in Stores \cup Uploads
Pending == {"storing", "uploading"}

LogOf(c, s, n, at) ==
  /\ Ordered(s, IF at \in Pending THEN n - 1 ELSE n)
  /\ MarksOK(c, s)
  /\ \A k \in 1..n \cap DOMAIN script[c].input :
       Quoted(s, k) \/ Untold(c, k) \/ (k = n /\ Stored(c, k) /\ at # "serving")

(* The user name that counts is the last one.                                *)
UserCut(c, n) ==
  \E j \in 1..n : /\ script[c].input[j].verb = "USER" /\ script[c].input[j].cut
                  /\ \A k \in j+1..n : script[c].input[k].verb # "USER"

HandlerOf(c, h, at) ==
  /\ h.turns <= Len(script[c].input) \/ Proto(c) = "telnet"
  /\ at = "waiting" => h.turns = 0
  /\ Proto(c) = "telnet" /\ at = "serving" =>
       /\ h.turns <= 1
       /\ h.turns = 1 /\ Len(script[c].input) >= 1 => h.userCut = script[c].input[1].cut
  /\ Proto(c) = "ftp" => h.userCut = UserCut(c, h.turns)
  /\ at \in Pending => /\ h.turns \in DOMAIN script[c].input /\ Stored(c, h.turns)
                       /\ h.cut = script[c].input[h.turns].cut /\ Proto(c) # "telnet"

ReadingsOK ==
  \A c \in Texts : LogOf(c, log[c], Read(c), phase[c]) /\ HandlerOf(c, conn[c], phase[c])

ServerInv == ValuesOK /\ SlotsHeld /\ Bookended /\ BrokerOK /\ HandsOK /\ TellingsOK

-----------------------------------------------------------------------------
LEMMA ScriptOK ==
  ASSUME ValuesOK
  PROVE  /\ \E n \in 1..Peers : Conns = 1..n
         /\ Conns \subseteq Nat \ {0}
         /\ \A c \in Conns :
              /\ Proto(c) \in Protocols /\ script[c].source \in Sources
              /\ Len(script[c].input) \in Nat
              /\ \A i \in 1..Len(script[c].input) : CanRead(Proto(c), i, script[c].input[i])
BY DecoyAssumption DEF ValuesOK, Conns, Sources, Proto

LEMMA ConnFields ==
  ASSUME ValuesOK, NEW c \in Conns
  PROVE  /\ conn[c] \in Handlers
         /\ conn[c].turns \in Nat /\ conn[c].held \in Seq({"text", "exit", "end"})
         /\ conn[c].userCut \in BOOLEAN /\ conn[c].cut \in BOOLEAN
         /\ conn[c].upload \in UploadSet /\ conn[c].upload.of \in Nat
BY DEF ValuesOK, Handlers, UploadSet

LEMMA MarksBoolean ==
  ASSUME NEW cuts
  PROVE  Marks(cuts) \in BOOLEAN
BY DEF Marks

(* What a turn of any protocol can be: the events it emits, and where it
   leads. *)
LEMMA TurnKinds ==
  ASSUME ValuesOK, NEW c \in Conns, Proto(c) \in Readers,
         NEW r, CanRead(Proto(c), Read(c) + 1, r),
         NEW turn, turn = TurnOn(c, r)
  PROVE  /\ turn.event \in {None} \cup TurnEvents
         /\ turn.marked \in BOOLEAN
         /\ turn.next \in {"serving", "storing", "uploading", "finishing"}
         /\ turn.next = "storing" =>
              Proto(c) = "ftp" /\ r.verb \in Stores /\ turn.event = None
         /\ turn.next = "uploading" =>
              Proto(c) = "web" /\ r.verb \in Uploads /\ turn.event = None
         /\ Proto(c) = "web" => turn.next # "serving"
<1> USE DEF Turn, Goes, Ends, Quiet, Leaves, Rejects, TurnEvents
<1>1. conn[c].userCut \in BOOLEAN /\ Read(c) \in Nat /\ Proto(c) \in Protocols
  BY ConnFields, ScriptOK DEF Read
<1>2. CASE Proto(c) = "generic"
  BY <1>2 DEF TurnOn, GenericTurn
<1>3. CASE Proto(c) = "smtp"
  <2>1. r.cut \in BOOLEAN
    BY <1>3 DEF CanRead
  <2> QED
    BY <1>3, <2>1 DEF TurnOn, SmtpTurn
<1>4. CASE Proto(c) = "redis"
  <2>1. r.cut \in BOOLEAN
    BY <1>4 DEF CanRead
  <2> QED
    BY <1>4, <2>1 DEF TurnOn, RedisTurn
<1>5. CASE Proto(c) = "mysql"
  <2>1. r.cut \in BOOLEAN
    BY <1>5 DEF CanRead
  <2> QED
    BY <1>5, <2>1 DEF TurnOn, MysqlTurn
<1>6. CASE Proto(c) = "smb"
  BY <1>6 DEF TurnOn, SmbTurn
<1>7. CASE Proto(c) = "telnet"
  <2>1. Marks({conn[c].userCut, r.cut}) \in BOOLEAN
    BY MarksBoolean
  <2> QED
    BY <1>1, <1>7, <2>1 DEF TurnOn, TelnetTurn
<1>8. CASE Proto(c) = "ftp"
  <2>1. r.cut \in BOOLEAN
    BY <1>8 DEF CanRead
  <2>2. Marks({conn[c].userCut, r.cut}) \in BOOLEAN
    BY MarksBoolean
  <2> QED
    BY <1>8, <2>1, <2>2 DEF TurnOn, FtpTurn, Stores
<1>9. CASE Proto(c) = "web"
  <2>1. r.cut \in BOOLEAN
    BY <1>9 DEF CanRead
  <2> QED
    BY <1>9, <2>1 DEF TurnOn, WebTurn, Uploads
<1>10. CASE Proto(c) = "ssh" /\ Read(c) = 0
  <2>1. r.cut \in BOOLEAN
    BY <1>10 DEF CanRead
  <2> QED
    BY <1>10, <2>1 DEF TurnOn, SshLogin
<1>11. CASE Proto(c) = "ssh" /\ Read(c) # 0
  <2> DEFINE cut == Len(LineIn(conn[c].held, r)) > MaxCommand
  <2>1. CASE turn = Quiet
    BY <1>11, <2>1
  <2>2. CASE turn = Ends("command", cut)
    BY <1>11, <2>2
  <2>3. CASE turn = Goes("command", cut)
    BY <1>11, <2>3
  <2>4. turn = Quiet \/ turn = Ends("command", cut) \/ turn = Goes("command", cut)
    BY <1>11 DEF TurnOn, SshTurn
  <2> QED
    BY <2>1, <2>2, <2>3, <2>4
<1> QED
  BY <1>1, <1>2, <1>3, <1>4, <1>5, <1>6, <1>7, <1>8, <1>9, <1>10, <1>11 DEF Readers, Protocols

-----------------------------------------------------------------------------
(* The steps, by what they do to phases, evidence and uploads.               *)
Moves(c, to) == phase' = [phase EXCEPT ![c] = to]
Tells(c, e) == log' = [log EXCEPT ![c] = Append(log[c], e)]

Accepted(c) ==
  /\ phase[c] = "waiting"
  /\ \E to \in {"serving", "finishing"} : Moves(c, to)
  /\ IF Proto(c) \in Bounded THEN slots' = [slots EXCEPT ![Proto(c)] = slots[Proto(c)] + 1]
                             ELSE slots' = slots
  /\ IF Proto(c) \in Told THEN log' = [log EXCEPT ![c] = <<Event("connection", FALSE, 0)>>]
                          ELSE log' = log
  /\ UNCHANGED <<script, conn, waiting, kept, taken, dropped>>

Turned(c) ==
  /\ phase[c] = "serving" /\ Proto(c) \in Readers
  /\ \E to \in {"serving", "storing", "uploading", "finishing"} :
       /\ Moves(c, to)
       /\ to = "storing" => Proto(c) = "ftp" /\ conn'[c].upload.of = 0
       /\ to = "uploading" => Proto(c) = "web" /\ conn'[c].upload.of = c
       /\ Proto(c) = "web" => to # "serving"
  /\ conn' \in [Conns -> Handlers] /\ \A d \in Conns \ {c} : conn'[d] = conn[d]
  /\ \/ log' = log
     \/ \E e \in Tellings : e.event \in TurnEvents /\ e.of = 0 /\ Tells(c, e)
  /\ UNCHANGED <<script, slots, waiting, kept, taken, dropped>>

(* The upload in hand is told of, and kept if the evidence says so.          *)
Reported(c) ==
  /\ phase[c] \in {"storing", "uploading"}
  /\ \E to \in {"serving", "finishing"} : Moves(c, to) /\ (Proto(c) = "web" => to = "finishing")
  /\ \E e \in Tellings :
       /\ e.of = conn[c].upload.of /\ e.reading = Read(c) /\ Tells(c, e)
       /\ e.event = "ftp.upload_rejected" \/ e.marked = conn[c].cut
       /\ e.event \in {"ftp.upload_rejected", "web.upload_rejected", "artifact.quarantined"}
       /\ phase[c] = "storing" => e.event # "artifact.quarantined"
       /\ e.event = "artifact.quarantined" => \E k \in kept' : k.of = e.of /\ ~k.tooLarge
  /\ kept \subseteq kept'
  /\ UNCHANGED <<script, conn, slots, waiting, taken, dropped>>

(* The connection is refused, its peer falls silent or its handler gives up;
   at most, an upload is kept of which nothing is told. *)
Shifts(c) ==
  /\ \/ phase[c] = "waiting" /\ Moves(c, "refused")
     \/ phase[c] \in {"serving", "silent"} /\ \E to \in {"silent", "finishing"} : Moves(c, to)
     \/ phase[c] = "uploading" /\ Moves(c, "finishing")
  /\ kept \subseteq kept'
  /\ UNCHANGED <<script, conn, slots, waiting, log, taken, dropped>>

LEMMA ShiftEffect ==
  ASSUME ValuesOK, NEW c \in Conns,
         Refuse(c) \/ FallSilent(c) \/ TimeOut(c) \/ QuarantineRaises(c)
  PROVE  Shifts(c)
<1>1. CASE Refuse(c)
  BY <1>1 DEF Refuse, Shifts, Moves
<1>2. CASE FallSilent(c)
  BY <1>2 DEF FallSilent, Shifts, Moves
<1>3. CASE TimeOut(c)
  BY <1>3 DEF TimeOut, Shifts, Moves
<1>4. CASE QuarantineRaises(c)
  BY <1>4 DEF QuarantineRaises, Keep, Shifts, Moves
<1> QED
  BY <1>1, <1>2, <1>3, <1>4

LEMMA AcceptEffect ==
  ASSUME ValuesOK, NEW c \in Conns, ProcessRequest(c)
  PROVE  Accepted(c)
BY DEF ProcessRequest, Accepted, Moves, ValuesOK

(* A turn on the reading r, with what the handler's variables become. *)
LEMMA ReadingEffect ==
  ASSUME ValuesOK, NEW c \in Conns, Proto(c) \in Readers, phase[c] = "serving",
         NEW r, CanRead(Proto(c), Read(c) + 1, r),
         NEW after \in Handlers, after.turns = Read(c) + 1,
         r.verb \in Uploads /\ Proto(c) = "web" => after.upload.of = c,
         r.verb \in Stores /\ Proto(c) = "ftp" => after.upload.of = 0,
         Turns(c, r, after), UNCHANGED <<script, slots, waiting, kept, taken, dropped>>
  PROVE  Turned(c)
<1> DEFINE turn == TurnOn(c, r)
<1>1. /\ turn.event \in {None} \cup TurnEvents
      /\ turn.marked \in BOOLEAN
      /\ turn.next \in {"serving", "storing", "uploading", "finishing"}
      /\ turn.next = "storing" => Proto(c) = "ftp" /\ r.verb \in Stores /\ turn.event = None
      /\ turn.next = "uploading" => Proto(c) = "web" /\ r.verb \in Uploads /\ turn.event = None
      /\ Proto(c) = "web" => turn.next # "serving"
  BY TurnKinds, Zenon
<1>2. /\ log' = Emitted(c, turn)
      /\ conn' = [conn EXCEPT ![c] = after]
      /\ \E lost \in BOOLEAN : phase' = [phase EXCEPT ![c] = Onward(c, turn, lost)]
  BY DEF Turns
<1> HIDE DEF turn
<1>3. Read(c) \in Nat
  BY ConnFields DEF Read
<1>4. /\ conn' \in [Conns -> Handlers] /\ conn'[c] = after
      /\ \A d \in Conns \ {c} : conn'[d] = conn[d]
  BY <1>2 DEF ValuesOK
<1>5. \/ log' = log
      \/ \E e \in Tellings : e.event \in TurnEvents /\ e.of = 0 /\ Tells(c, e)
  <2>1. CASE turn.event = None
    BY <1>2, <2>1 DEF Emitted
  <2>2. CASE turn.event # None
    <3> DEFINE e == Event(turn.event, turn.marked, Read(c) + 1)
    <3>1. turn.event \in TurnEvents /\ turn.event \in EventNames
      BY <1>1, <2>2 DEF EventNames
    <3>2. e \in Tellings /\ e.event = turn.event /\ e.of = 0
      BY <1>1, <1>3, <3>1 DEF Event, Tellings
    <3>3. log' = [log EXCEPT ![c] = Append(log[c], e)]
      BY <1>2, <2>2 DEF Emitted, ValuesOK
    <3> HIDE DEF e
    <3> QED
      BY <3>1, <3>2, <3>3 DEF Tells
  <2> QED
    BY <2>1, <2>2
<1>6. PICK lost \in BOOLEAN : phase' = [phase EXCEPT ![c] = Onward(c, turn, lost)]
  BY <1>2
<1> DEFINE to == Onward(c, turn, lost)
<1>7. /\ to \in {"serving", "storing", "uploading", "finishing"}
      /\ to = "storing" => turn.next = "storing"
      /\ to = "uploading" => turn.next = "uploading"
      /\ to = "serving" => turn.next = "serving"
  BY <1>1 DEF Onward
<1>8. Moves(c, to)
  BY <1>6 DEF Moves
<1> HIDE DEF to
<1> QED
  BY <1>1, <1>4, <1>5, <1>7, <1>8 DEF Turned

LEMMA AfterEffect ==
  ASSUME ValuesOK, NEW c \in Conns, NEW r,
         Proto(c) # "ssh" \/ Read(c) = 0, Proto(c) \in Readers,
         CanRead(Proto(c), Read(c) + 1, r)
  PROVE  /\ After(c, r) \in Handlers
         /\ After(c, r).turns = Read(c) + 1
         /\ After(c, r).cut = r.cut
         /\ After(c, r).upload = IF r.verb \in Uploads THEN Upload(c, 1) ELSE NoUpload
         /\ After(c, r).userCut =
              IF r.verb = "USER" \/ (Proto(c) = "telnet" /\ Read(c) = 0) THEN r.cut
                                                                         ELSE conn[c].userCut
<1>1. r.cut \in BOOLEAN
  BY ConnFields DEF CanRead, Read, Readers
<1>2. c \in Nat
  BY ScriptOK
<1>3. Upload(c, 1) \in UploadSet /\ NoUpload \in UploadSet
  <2>1. UploadMax \in Nat
    BY DecoyAssumption
  <2> QED
    BY <1>2, <2>1 DEF Upload, NoUpload, UploadSet
<1> DEFINE userCut == IF r.verb = "USER" \/ (Proto(c) = "telnet" /\ Read(c) = 0)
                        THEN r.cut ELSE conn[c].userCut
           upload == IF r.verb \in Uploads THEN Upload(c, 1) ELSE NoUpload
<1>4. conn[c] \in Handlers
  BY ConnFields
<1>5. After(c, r) = [conn[c] EXCEPT !.turns = Read(c) + 1, !.userCut = userCut,
                                     !.cut = r.cut, !.upload = upload]
  BY <1>4 DEF After, Handlers, Read
<1>6. userCut \in BOOLEAN /\ upload \in UploadSet /\ Read(c) + 1 \in Nat
      /\ conn[c].held \in Seq({"text", "exit", "end"})
  BY <1>1, <1>3, ConnFields DEF Read
<1> HIDE DEF userCut, upload
<1>7. After(c, r) \in Handlers
  BY <1>1, <1>4, <1>5, <1>6 DEF Handlers
<1>8. /\ After(c, r).turns = Read(c) + 1 /\ After(c, r).userCut = userCut
      /\ After(c, r).cut = r.cut /\ After(c, r).upload = upload
  BY <1>4, <1>5 DEF Handlers
<1> QED
  BY <1>7, <1>8 DEF userCut, upload

LEMMA ChunkEffect ==
  ASSUME ValuesOK, NEW c \in Conns, NEW r,
         Proto(c) = "ssh", Read(c) > 0, CanRead(Proto(c), Read(c) + 1, r)
  PROVE  AfterChunk(c, r) \in Handlers /\ AfterChunk(c, r).turns = Read(c) + 1
<1>1. r \in Seq({"text", "exit", "end"}) /\ Read(c) \in Nat
  BY ConnFields DEF CanRead, Read
<1>2. EndsAt(r) = {} => LineIn(conn[c].held, r) \in Seq({"text", "exit", "end"})
  BY <1>1, ConnFields DEF LineIn
<1>3. <<>> \in Seq({"text", "exit", "end"})
  OBVIOUS
<1> DEFINE held == IF EndsAt(r) = {} THEN LineIn(conn[c].held, r) ELSE <<>>
<1>4. conn[c] \in Handlers
  BY ConnFields
<1>5. AfterChunk(c, r) = [conn[c] EXCEPT !.turns = Read(c) + 1, !.held = held]
  BY <1>4 DEF AfterChunk, Handlers, Read
<1>6. held \in Seq({"text", "exit", "end"}) /\ Read(c) + 1 \in Nat
  BY <1>1, <1>2, <1>3
<1> HIDE DEF held
<1> QED
  BY <1>4, <1>5, <1>6 DEF Handlers

LEMMA ServeEffect ==
  ASSUME ValuesOK, NEW c \in Conns, Serve(c) \/ PeerCloses(c)
  PROVE  Turned(c)
<1>1. Proto(c) \in Readers /\ phase[c] = "serving"
  BY ScriptOK DEF Serve, PeerCloses, Readers
<1>2. ASSUME Moves(c, "finishing"), UNCHANGED <<script, slots, waiting, kept, taken, dropped>>,
             UNCHANGED <<conn, log>>
      PROVE  Turned(c)
  BY <1>1, <1>2 DEF Turned, ValuesOK
<1>3. CASE PeerCloses(c)
  <2>1. CASE Proto(c) # "telnet"
    BY <1>2, <1>3, <2>1 DEF PeerCloses, Moves
  <2>2. CASE Proto(c) = "telnet"
    <3> DEFINE blank == [verb |-> "BLANK", cut |-> FALSE]
    <3>1. CanRead(Proto(c), Read(c) + 1, blank)
      BY <2>2 DEF CanRead, Reads, LegacyReads
    <3>2. /\ After(c, blank) \in Handlers /\ After(c, blank).turns = Read(c) + 1
      BY <1>1, <2>2, <3>1, AfterEffect
    <3>3. /\ Turns(c, blank, After(c, blank))
          /\ UNCHANGED <<script, slots, waiting, kept, taken, dropped>>
      BY <1>3, <2>2 DEF PeerCloses
    <3> QED
      BY <1>1, <2>2, <3>1, <3>2, <3>3, ReadingEffect
  <2> QED
    BY <2>1, <2>2
<1>4. CASE Serve(c)
  <2> DEFINE r == Reading(c)
  <2>1. CanRead(Proto(c), Read(c) + 1, r)
    BY <1>4, ScriptOK, ConnFields, SMTT(30) DEF Serve, HasMore, Reading, Read
  <2>2. /\ HasMore(c) /\ UNCHANGED <<script, slots, waiting, kept, taken, dropped>>
        /\ Turns(c, r, IF Proto(c) = "ssh" /\ Read(c) > 0 THEN AfterChunk(c, r) ELSE After(c, r))
    BY <1>4 DEF Serve
  <2>3. Read(c) \in Nat
    BY ConnFields DEF Read
  <2> HIDE DEF r
  <2>4. CASE Proto(c) = "ssh" /\ Read(c) > 0
    <3>1. AfterChunk(c, r) \in Handlers /\ AfterChunk(c, r).turns = Read(c) + 1
      BY <2>1, <2>4, ChunkEffect
    <3> QED
      BY <1>1, <2>1, <2>2, <2>4, <3>1, ReadingEffect
  <2>5. CASE ~(Proto(c) = "ssh" /\ Read(c) > 0)
    <3>1. /\ After(c, r) \in Handlers /\ After(c, r).turns = Read(c) + 1
          /\ After(c, r).upload = IF r.verb \in Uploads THEN Upload(c, 1) ELSE NoUpload
      BY <1>1, <2>1, <2>3, <2>5, AfterEffect
    <3>2. Upload(c, 1).of = c /\ NoUpload.of = 0
      BY DEF Upload, NoUpload
    <3> QED
      BY <1>1, <2>1, <2>2, <2>5, <3>1, <3>2, ReadingEffect DEF Stores, Uploads
  <2> QED
    BY <2>4, <2>5
<1> QED
  BY <1>3, <1>4

LEMMA SettledEffect ==
  ASSUME ValuesOK, NEW c \in Conns, TakeTimesOut(c) \/ Quarantine(c)
  PROVE  Reported(c)
<1>1. ASSUME NEW event \in {"ftp.upload_rejected", "web.upload_rejected", "artifact.quarantined"},
             NEW marked \in BOOLEAN, Settled(c, event, marked),
             phase[c] \in {"storing", "uploading"},
             phase[c] = "storing" => event # "artifact.quarantined",
             event = "artifact.quarantined" =>
               \E k \in kept' : k.of = conn[c].upload.of /\ ~k.tooLarge,
             event = "ftp.upload_rejected" \/ marked = conn[c].cut,
             kept \subseteq kept', UNCHANGED <<script, conn, slots, waiting, taken, dropped>>
      PROVE  Reported(c)
  <2> DEFINE e == [Event(event, marked, Read(c)) EXCEPT !.of = conn[c].upload.of]
  <2>1. Read(c) \in Nat /\ conn[c].upload.of \in Nat
    BY ConnFields DEF Read
  <2>2. e = [event |-> event, marked |-> marked, reading |-> Read(c), of |-> conn[c].upload.of]
    BY DEF Event
  <2>3. log' = [log EXCEPT ![c] = Append(log[c], e)]
    BY <1>1 DEF Settled, ValuesOK
  <2> HIDE DEF e
  <2>4. /\ e \in Tellings /\ e.of = conn[c].upload.of /\ e.event = event
        /\ e.reading = Read(c) /\ e.marked = marked
    <3>1. event \in EventNames
      BY <1>1 DEF EventNames, TurnEvents
    <3> QED
      BY <2>1, <2>2, <3>1 DEF Tellings
  <2>5. \E to \in {"serving", "finishing"} :
          Moves(c, to) /\ (Proto(c) = "web" => to = "finishing")
    BY <1>1 DEF Settled, Moves
  <2> QED
    BY <1>1, <2>3, <2>4, <2>5 DEF Reported, Tells
<1>2. CASE TakeTimesOut(c)
  BY <1>1, <1>2 DEF TakeTimesOut
<1>3. CASE Quarantine(c)
  <2>1. PICK stores, answered \in BOOLEAN :
          /\ ~Sendable(c) => ~stores
          /\ kept' = IF stores THEN kept \cup {conn[c].upload} ELSE kept
          /\ Settled(c, IF stores /\ answered THEN "artifact.quarantined" ELSE Rejection(c),
                     conn[c].cut /\ (Proto(c) = "web" \/ (stores /\ answered)))
    BY <1>3 DEF Quarantine, Keep
  <2>2. /\ phase[c] = "uploading" /\ UNCHANGED <<script, conn, slots, waiting, taken, dropped>>
    BY <1>3 DEF Quarantine
  <2> DEFINE event == IF stores /\ answered THEN "artifact.quarantined" ELSE Rejection(c)
             marked == conn[c].cut /\ (Proto(c) = "web" \/ (stores /\ answered))
  <2>3. event \in {"ftp.upload_rejected", "web.upload_rejected", "artifact.quarantined"}
    BY DEF Rejection
  <2>4. marked \in BOOLEAN
    OBVIOUS
  <2>5. event = "artifact.quarantined" =>
          \E k \in kept' : k.of = conn[c].upload.of /\ ~k.tooLarge
    BY <2>1 DEF Rejection, Sendable
  <2>6. kept \subseteq kept' /\ Settled(c, event, marked)
    BY <2>1
  <2>7. event = "ftp.upload_rejected" \/ marked = conn[c].cut
    <3>1. conn[c].cut \in BOOLEAN
      BY ConnFields
    <3> QED
      BY <3>1 DEF Rejection
  <2> HIDE DEF event, marked
  <2> QED
    BY <1>1, <2>2, <2>3, <2>4, <2>5, <2>6, <2>7
<1> QED
  BY <1>2, <1>3

(* The four kinds of step that touch neither a queue nor what was taken. *)
LEMMA StepKinds ==
  ASSUME ValuesOK, Next
  PROVE  \E c \in Conns :
           \/ Accepted(c) \/ Shifts(c) \/ Turned(c) \/ Put(c) \/ Take(c)
           \/ Reported(c) \/ Finish(c) \/ Release(c)
BY AcceptEffect, ServeEffect, SettledEffect, ShiftEffect DEF Next, Handle

(***************************************************************************)
(* The values.                                                             *)
(***************************************************************************)
LEMMA InitValues ==
  ASSUME Init
  PROVE  ValuesOK
<1>1. script \in Workloads /\ Conns \subseteq Nat
  BY DecoyAssumption DEF Init, Conns
<1>2. Fresh \in Handlers
  BY DEF Fresh, Handlers, NoUpload, UploadSet
<1>3. <<>> \in Seq(Tellings) /\ <<>> \in Seq(UploadSet) /\ <<>> \in Seq(Nat)
  OBVIOUS
<1> QED
  BY <1>1, <1>2, <1>3 DEF Init, ValuesOK, Phases

(* The upload a data connection brings, and what its source's queue becomes. *)
LEMMA PutEffect ==
  ASSUME ValuesOK, NEW c \in Conns, Put(c)
  PROVE  LET s == script[c].source IN
         /\ phase[c] = "serving" /\ Proto(c) = "ftp_data" /\ s \in Sources
         /\ phase' = [phase EXCEPT ![c] = "closing"]
         /\ \E upload \in UploadSet :
              /\ upload.of = c
              /\ \/ /\ waiting' = [waiting EXCEPT ![s] = Append(waiting[s], upload)]
                    /\ dropped' = dropped
                 \/ /\ waiting[s] # <<>>
                    /\ waiting' = [waiting EXCEPT ![s] = Append(Tail(waiting[s]), upload)]
                    /\ dropped' = dropped \cup {Head(waiting[s]).of}
         /\ UNCHANGED <<script, conn, slots, log, kept, taken>>
<1> DEFINE s == script[c].source
<1>1. s \in Sources /\ c \in Nat /\ waiting[s] \in Seq(UploadSet) /\ Len(script[c].input) \in Nat
  BY ScriptOK DEF ValuesOK
<1>2. PICK parts \in 0..Len(script[c].input) :
        /\ waiting' = [waiting EXCEPT ![s] =
                         IF Len(waiting[s]) = BrokerDepth THEN Append(Tail(waiting[s]), Upload(c, parts))
                                                          ELSE Append(waiting[s], Upload(c, parts))]
        /\ dropped' = IF Len(waiting[s]) = BrokerDepth THEN dropped \cup {Head(waiting[s]).of}
                                                       ELSE dropped
  BY DEF Put
<1>3. Upload(c, parts) \in UploadSet /\ Upload(c, parts).of = c
  BY <1>1, DecoyAssumption DEF Upload, UploadSet
<1>4. Len(waiting[s]) = BrokerDepth => waiting[s] # <<>>
  BY <1>1, DecoyAssumption
<1>5. /\ phase[c] = "serving" /\ Proto(c) = "ftp_data" /\ phase' = [phase EXCEPT ![c] = "closing"]
      /\ UNCHANGED <<script, conn, slots, log, kept, taken>>
  BY DEF Put
<1> HIDE DEF s
<1>6. \/ /\ waiting' = [waiting EXCEPT ![s] = Append(waiting[s], Upload(c, parts))]
         /\ dropped' = dropped
      \/ /\ waiting[s] # <<>>
         /\ waiting' = [waiting EXCEPT ![s] = Append(Tail(waiting[s]), Upload(c, parts))]
         /\ dropped' = dropped \cup {Head(waiting[s]).of}
  BY <1>2, <1>4
<1> QED
  BY <1>1, <1>3, <1>5, <1>6 DEF s

LEMMA TakeEffect ==
  ASSUME ValuesOK, NEW c \in Conns, Take(c)
  PROVE  LET s == script[c].source IN
         /\ phase[c] = "storing" /\ s \in Sources /\ waiting[s] # <<>>
         /\ Head(waiting[s]) \in UploadSet
         /\ phase' = [phase EXCEPT ![c] = "uploading"]
         /\ conn' \in [Conns -> Handlers] /\ conn'[c].upload = Head(waiting[s])
         /\ conn'[c].turns = Read(c) /\ conn'[c].cut = conn[c].cut
         /\ conn'[c].userCut = conn[c].userCut
         /\ \A d \in Conns \ {c} : conn'[d] = conn[d]
         /\ waiting' = [waiting EXCEPT ![s] = Tail(waiting[s])]
         /\ taken' = Append(taken, Head(waiting[s]).of)
         /\ UNCHANGED <<script, slots, log, kept, dropped>>
<1> DEFINE s == script[c].source
           head == Head(waiting[s])
<1>1. s \in Sources /\ waiting[s] \in Seq(UploadSet)
  BY ScriptOK DEF ValuesOK
<1>2. /\ phase[c] = "storing" /\ waiting[s] # <<>>
      /\ conn' = [conn EXCEPT ![c].upload = head]
      /\ waiting' = [waiting EXCEPT ![s] = Tail(waiting[s])]
      /\ taken' = Append(taken, head.of)
      /\ phase' = [phase EXCEPT ![c] = "uploading"]
      /\ UNCHANGED <<script, slots, log, kept, dropped>>
  BY <1>1 DEF Take, ValuesOK
<1>3. head \in UploadSet
  BY <1>1, <1>2
<1> HIDE DEF head, s
<1>4. [conn[c] EXCEPT !.upload = head] \in Handlers
      /\ [conn[c] EXCEPT !.upload = head].upload = head
      /\ [conn[c] EXCEPT !.upload = head].turns = Read(c)
      /\ [conn[c] EXCEPT !.upload = head].cut = conn[c].cut
      /\ [conn[c] EXCEPT !.upload = head].userCut = conn[c].userCut
  BY <1>3, ConnFields DEF Handlers, Read
<1>5. conn' = [conn EXCEPT ![c] = [conn[c] EXCEPT !.upload = head]]
  BY <1>2 DEF ValuesOK
<1>6. /\ conn' \in [Conns -> Handlers] /\ conn'[c].upload = head
      /\ conn'[c].turns = Read(c) /\ conn'[c].cut = conn[c].cut
      /\ conn'[c].userCut = conn[c].userCut
      /\ \A d \in Conns \ {c} : conn'[d] = conn[d]
  BY <1>4, <1>5 DEF ValuesOK
<1> QED
  BY <1>1, <1>2, <1>3, <1>6 DEF s, head

(* A step that changes no script and moves one connection. *)
LEMMA StepMoves ==
  ASSUME ValuesOK, NEW c \in Conns,
         \/ Accepted(c) \/ Shifts(c) \/ Turned(c) \/ Put(c) \/ Take(c)
         \/ Reported(c) \/ Finish(c) \/ Release(c)
  PROVE  /\ script' = script /\ Conns' = Conns /\ Sources' = Sources
         /\ \A d \in Conns : Proto(d)' = Proto(d)
         /\ \E to \in Phases :
              /\ phase' = [phase EXCEPT ![c] = to]
              /\ phase[c] \in Serving /\ to \notin Serving => Release(c)
              /\ phase[c] \notin Serving /\ to \in Serving => Accepted(c)
         /\ slots' = slots \/ Accepted(c) \/ Release(c)
<1>1. CASE Put(c)
  <2>1. /\ phase[c] = "serving" /\ phase' = [phase EXCEPT ![c] = "closing"]
        /\ UNCHANGED <<script, slots>>
    BY <1>1 DEF Put
  <2> QED
    BY <2>1 DEF Conns, Sources, Proto, Phases, Serving
<1>2. CASE Take(c)
  <2>1. /\ phase[c] = "storing" /\ phase' = [phase EXCEPT ![c] = "uploading"]
        /\ UNCHANGED <<script, slots>>
    BY <1>2 DEF Take
  <2> QED
    BY <2>1 DEF Conns, Sources, Proto, Phases, Serving
<1>3. CASE Accepted(c)
  BY <1>3 DEF Accepted, Moves, Conns, Sources, Proto, Phases, Serving
<1>4. CASE Shifts(c)
  BY <1>4 DEF Shifts, Moves, Conns, Sources, Proto, Phases, Serving
<1>5. CASE Turned(c)
  BY <1>5 DEF Turned, Moves, Conns, Sources, Proto, Phases, Serving
<1>6. CASE Reported(c)
  BY <1>6 DEF Reported, Moves, Conns, Sources, Proto, Phases, Serving
<1>7. CASE Finish(c)
  BY <1>7 DEF Finish, Conns, Sources, Proto, Phases, Serving
<1>8. CASE Release(c)
  BY <1>8 DEF Release, Conns, Sources, Proto, Phases, Serving
<1> QED
  BY <1>1, <1>2, <1>3, <1>4, <1>5, <1>6, <1>7, <1>8

(***************************************************************************)
(* The slots.                                                              *)
(***************************************************************************)
Held(p) == {c \in Conns : Proto(c) = p /\ phase[c] \in Serving}

LEMMA HeldFinite ==
  ASSUME ValuesOK, NEW p
  PROVE  IsFiniteSet(Held(p)) /\ Cardinality(Held(p)) \in Nat
<1>1. PICK n \in 1..Peers : Conns = 1..n
  BY ScriptOK
<1>2. IsFiniteSet(Conns)
  BY <1>1, FS_Interval, DecoyAssumption
<1>3. Held(p) \subseteq Conns
  BY DEF Held
<1> QED
  BY <1>2, <1>3, FS_Subset, FS_CardinalityType

LEMMA SlotsStep ==
  ASSUME ValuesOK, SlotsHeld, NEW c \in Conns,
         \/ Accepted(c) \/ Shifts(c) \/ Turned(c) \/ Put(c) \/ Take(c)
         \/ Reported(c) \/ Finish(c) \/ Release(c)
  PROVE  SlotsHeld' /\ slots' \in [Bounded -> Nat]
<1>1. /\ script' = script /\ Conns' = Conns /\ \A d \in Conns : Proto(d)' = Proto(d)
      /\ slots' = slots \/ Accepted(c) \/ Release(c)
  BY StepMoves
<1>2. PICK to \in Phases :
        /\ phase' = [phase EXCEPT ![c] = to]
        /\ phase[c] \in Serving /\ to \notin Serving => Release(c)
        /\ phase[c] \notin Serving /\ to \in Serving => Accepted(c)
  BY StepMoves
<1>3. ASSUME NEW p \in Bounded
      PROVE  slots[p] = Cardinality(Held(p)) /\ IsFiniteSet(Held(p)) /\ slots[p] \in Nat
  BY HeldFinite DEF SlotsHeld, Held
<1>4. ASSUME NEW p \in Bounded
      PROVE  Held(p)' = IF Proto(c) # p THEN Held(p)
                        ELSE IF to \in Serving THEN Held(p) \cup {c} ELSE Held(p) \ {c}
  BY <1>1, <1>2 DEF Held, ValuesOK
<1>5. ASSUME NEW p \in Bounded
      PROVE  slots'[p] = Cardinality(Held(p)') /\ slots'[p] \in Nat
  <2>1. CASE Accepted(c)
    <3>1. phase[c] \notin Serving /\ to \in Serving /\ c \notin Held(p)
      BY <1>2, <2>1 DEF Accepted, Moves, Serving, Held, ValuesOK
    <3>2. slots'[p] = IF Proto(c) = p THEN slots[p] + 1 ELSE slots[p]
      BY <2>1 DEF Accepted, ValuesOK
    <3>3. Cardinality(Held(p) \cup {c}) = Cardinality(Held(p)) + 1
      BY <1>3, <3>1, FS_AddElement
    <3>4. CASE Proto(c) = p
      <4>1. Held(p)' = Held(p) \cup {c}
        BY <1>4, <3>1, <3>4
      <4>2. Cardinality(Held(p)') = slots[p] + 1
        BY <1>3, <3>3, <4>1
      <4> QED
        BY <1>3, <3>2, <3>4, <4>2
    <3>5. CASE Proto(c) # p
      BY <1>3, <1>4, <3>2, <3>5
    <3> QED
      BY <3>4, <3>5
  <2>2. CASE Release(c)
    <3>1. phase[c] \in Serving /\ to \notin Serving
      BY <1>2, <2>2 DEF Release, Serving, ValuesOK
    <3>2. slots'[p] = IF Proto(c) = p THEN slots[p] - 1 ELSE slots[p]
      BY <2>2 DEF Release, ValuesOK
    <3>3. Proto(c) = p => c \in Held(p)
      BY <3>1 DEF Held
    <3>4. Proto(c) = p =>
            /\ Cardinality(Held(p) \ {c}) = Cardinality(Held(p)) - 1
            /\ Cardinality(Held(p) \ {c}) \in Nat
      BY <1>3, <3>3, FS_RemoveElement, FS_CardinalityType
    <3> QED
      BY <1>3, <1>4, <3>1, <3>2, <3>4
  <2>3. CASE ~Accepted(c) /\ ~Release(c)
    <3>1. slots' = slots
      BY <1>1, <2>3
    <3>2. phase[c] \in Serving <=> to \in Serving
      BY <1>2, <2>3
    <3>3. Proto(c) = p /\ to \in Serving => c \in Held(p)
      BY <3>2 DEF Held
    <3>4. Proto(c) = p /\ to \notin Serving => c \notin Held(p)
      BY <3>2 DEF Held
    <3>5. Held(p)' = Held(p)
      BY <1>4, <3>3, <3>4
    <3> QED
      BY <1>3, <3>1, <3>5
  <2> QED
    BY <2>1, <2>2, <2>3
<1>6. slots' = [p \in Bounded |-> slots'[p]]
  BY <1>1 DEF Accepted, Release, ValuesOK
<1>7. SlotsHeld'
  BY <1>5 DEF SlotsHeld, Held
<1> QED
  BY <1>5, <1>6, <1>7

LEMMA TakenSeq ==
  ASSUME NEW S, NEW s \in Seq(S), s # <<>>
  PROVE  /\ Tail(s) \in Seq(S) /\ Head(s) \in S /\ Head(s) = s[1]
         /\ Len(Tail(s)) = Len(s) - 1 /\ Len(s) \in Nat \ {0} /\ DOMAIN s = 1..Len(s)
         /\ DOMAIN Tail(s) = 1..(Len(s) - 1)
         /\ \A i \in 1..(Len(s) - 1) : Tail(s)[i] = s[i + 1]
OBVIOUS

LEMMA ValuesStep ==
  ASSUME ValuesOK, SlotsHeld, NEW c \in Conns,
         \/ Accepted(c) \/ Shifts(c) \/ Turned(c) \/ Put(c) \/ Take(c)
         \/ Reported(c) \/ Finish(c) \/ Release(c)
  PROVE  ValuesOK'
<1>1. script' \in Workloads /\ phase' \in [Conns' -> Phases] /\ Conns' = Conns /\ Sources' = Sources
  BY StepMoves DEF ValuesOK
<1>2. slots' \in [Bounded -> Nat]
  BY SlotsStep
<1>3. log' \in [Conns -> Seq(Tellings)]
  <2>1. ASSUME NEW e \in Tellings
        PROVE  [log EXCEPT ![c] = Append(log[c], e)] \in [Conns -> Seq(Tellings)]
    BY DEF ValuesOK
  <2>2. /\ Event("connection", FALSE, 0) \in Tellings
        /\ Event("connection.closed", FALSE, 0) \in Tellings
    BY DEF Event, Tellings, EventNames
  <2>3. <<Event("connection", FALSE, 0)>> \in Seq(Tellings)
    <3> DEFINE e == Event("connection", FALSE, 0)
    <3> HIDE DEF e
    <3>1. e \in Tellings
      BY <2>2 DEF e
    <3>2. <<e>> \in Seq(Tellings)
      BY <3>1
    <3> QED
      BY <3>2 DEF e
  <2>4. CASE log' = log
    BY <2>4 DEF ValuesOK
  <2>5. CASE Accepted(c)
    <3> DEFINE opening == <<Event("connection", FALSE, 0)>>
    <3>1. log' = log \/ log' = [log EXCEPT ![c] = opening]
      BY <2>5 DEF Accepted
    <3> HIDE DEF opening
    <3>2. [log EXCEPT ![c] = opening] \in [Conns -> Seq(Tellings)]
      BY <2>3 DEF ValuesOK, opening
    <3> QED
      BY <2>4, <3>1, <3>2
  <2>6. CASE Turned(c)
    BY <2>1, <2>4, <2>6 DEF Turned, Tells
  <2>7. CASE Reported(c)
    BY <2>1, <2>7 DEF Reported, Tells
  <2>8. CASE Finish(c)
    <3>1. log' = log \/ log' = [log EXCEPT ![c] = Append(log[c], Event("connection.closed", FALSE, 0))]
      BY <2>8 DEF Finish, ValuesOK
    <3> QED
      BY <2>1, <2>2, <2>4, <3>1
  <2> QED
    BY <2>4, <2>5, <2>6, <2>7, <2>8 DEF Shifts, Put, Take, Release
<1>4. conn' \in [Conns -> Handlers]
  <2>1. CASE Turned(c)
    BY <2>1 DEF Turned
  <2>2. CASE Take(c)
    BY <2>2, TakeEffect
  <2> QED
    BY <2>1, <2>2 DEF Accepted, Shifts, Put, Reported, Finish, Release, ValuesOK
<1>5. waiting' \in [Sources -> Seq(UploadSet)]
  <2>1. CASE Put(c)
    <3> DEFINE s == script[c].source
    <3>1. PICK upload \in UploadSet :
            \/ waiting' = [waiting EXCEPT ![s] = Append(waiting[s], upload)]
            \/ /\ waiting[s] # <<>>
               /\ waiting' = [waiting EXCEPT ![s] = Append(Tail(waiting[s]), upload)]
      BY <2>1, PutEffect
    <3>2. s \in Sources
      BY ScriptOK
    <3> HIDE DEF s
    <3>3. waiting[s] \in Seq(UploadSet) /\ (waiting[s] # <<>> => Tail(waiting[s]) \in Seq(UploadSet))
      BY <3>2, TakenSeq DEF ValuesOK
    <3>4. /\ Append(waiting[s], upload) \in Seq(UploadSet)
          /\ waiting[s] # <<>> => Append(Tail(waiting[s]), upload) \in Seq(UploadSet)
      BY <3>3
    <3> QED
      BY <3>1, <3>2, <3>4 DEF ValuesOK
  <2>2. CASE Take(c)
    <3> DEFINE s == script[c].source
    <3>1. s \in Sources /\ waiting[s] # <<>> /\ waiting' = [waiting EXCEPT ![s] = Tail(waiting[s])]
      BY <2>2, TakeEffect
    <3> HIDE DEF s
    <3>2. Tail(waiting[s]) \in Seq(UploadSet)
      BY <3>1, TakenSeq DEF ValuesOK
    <3> QED
      BY <3>1, <3>2 DEF ValuesOK
  <2> QED
    BY <2>1, <2>2 DEF Accepted, Shifts, Turned, Reported, Finish, Release, ValuesOK
<1>6. taken' \in Seq(Nat)
  <2>1. CASE Take(c)
    <3>1. taken' = Append(taken, Head(waiting[script[c].source]).of)
          /\ Head(waiting[script[c].source]) \in UploadSet
      BY <2>1, TakeEffect
    <3> QED
      BY <3>1 DEF UploadSet, ValuesOK
  <2> QED
    BY <2>1 DEF Accepted, Shifts, Turned, Put, Reported, Finish, Release, ValuesOK
<1> QED
  BY <1>1, <1>2, <1>3, <1>4, <1>5, <1>6 DEF ValuesOK

(***************************************************************************)
(* The first and the last event of a connection.                           *)
(***************************************************************************)
Seen(s, event) == {i \in DOMAIN s : s[i].event = event}

LEMMA SeenAppended ==
  ASSUME NEW s \in Seq(Tellings), NEW e \in Tellings, NEW event
  PROVE  Seen(Append(s, e), event) =
           IF e.event = event THEN Seen(s, event) \cup {Len(s) + 1} ELSE Seen(s, event)
<1>1. /\ DOMAIN s = 1..Len(s) /\ DOMAIN Append(s, e) = 1..Len(s) + 1 /\ Len(s) \in Nat
      /\ \A i \in 1..Len(s) : Append(s, e)[i] = s[i]
      /\ Append(s, e)[Len(s) + 1] = e
  OBVIOUS
<1> QED
  BY <1>1 DEF Seen

LEMMA SeenOpening ==
  ASSUME NEW e, NEW event
  PROVE  Seen(<<e>>, event) = IF e.event = event THEN {1} ELSE {}
BY DEF Seen

BookendsOf(c) ==
  /\ Seen(log[c], "connection") =
       IF Proto(c) \in Told /\ phase[c] \in Serving \cup {"closed"} THEN {1} ELSE {}
  /\ Seen(log[c], "connection.closed") =
       IF Proto(c) \in Told /\ phase[c] \in {"closing", "closed"} THEN {Len(log[c])} ELSE {}

LEMMA BookendsEach == Bookended <=> \A c \in Conns : BookendsOf(c)
BY DEF Bookended, BookendsOf, Positions, Seen

LEMMA BookendedStep ==
  ASSUME ValuesOK, Bookended, NEW c \in Conns,
         \/ Accepted(c) \/ Shifts(c) \/ Turned(c) \/ Put(c) \/ Take(c)
         \/ Reported(c) \/ Finish(c) \/ Release(c)
  PROVE  Bookended'
<1>1. /\ Conns' = Conns /\ \A d \in Conns : Proto(d)' = Proto(d)
      /\ \E to \in Phases : phase' = [phase EXCEPT ![c] = to]
  BY StepMoves
<1>2. /\ Proto(c) \in Protocols /\ log[c] \in Seq(Tellings) /\ Len(log[c]) \in Nat
      /\ BookendsOf(c)
  BY ScriptOK, BookendsEach DEF ValuesOK
<1>3. ASSUME NEW d \in Conns \ {c}
      PROVE  log'[d] = log[d] /\ phase'[d] = phase[d]
  <2>1. phase'[d] = phase[d]
    BY <1>1 DEF ValuesOK
  <2>2. CASE Accepted(c)
    BY <2>1, <2>2 DEF Accepted, ValuesOK
  <2>3. CASE Turned(c)
    BY <2>1, <2>3 DEF Turned, Tells, ValuesOK
  <2>4. CASE Reported(c)
    BY <2>1, <2>4 DEF Reported, Tells, ValuesOK
  <2>5. CASE Finish(c)
    BY <2>1, <2>5 DEF Finish, ValuesOK
  <2> QED
    BY <2>1, <2>2, <2>3, <2>4, <2>5 DEF Shifts, Put, Take, Release
<1>4. BookendsOf(c)'
  <2> SUFFICES /\ Seen(log'[c], "connection") =
                    IF Proto(c) \in Told /\ phase'[c] \in Serving \cup {"closed"} THEN {1} ELSE {}
               /\ Seen(log'[c], "connection.closed") =
                    IF Proto(c) \in Told /\ phase'[c] \in {"closing", "closed"}
                      THEN {Len(log'[c])} ELSE {}
    BY <1>1 DEF BookendsOf
  <2> USE DEF BookendsOf, Serving
  <2>1. CASE Accepted(c)
    <3> DEFINE e == Event("connection", FALSE, 0)
    <3>1. e.event = "connection"
      BY DEF Event
    <3>2. phase[c] = "waiting" /\ phase'[c] \in {"serving", "finishing"}
          /\ (IF Proto(c) \in Told THEN log'[c] = <<e>> ELSE log'[c] = log[c])
      BY <2>1 DEF Accepted, Moves, ValuesOK
    <3> HIDE DEF e
    <3>3. CASE Proto(c) \in Told
      <4>1. Seen(<<e>>, "connection") = {1} /\ Seen(<<e>>, "connection.closed") = {}
        BY <3>1, SeenOpening
      <4> QED
        BY <3>2, <3>3, <4>1
    <3>4. CASE Proto(c) \notin Told
      BY <1>2, <3>2, <3>4
    <3> QED
      BY <3>3, <3>4
  <2>2. CASE log'[c] = log[c] /\ phase[c] = "waiting" /\ phase'[c] = "refused"
    BY <1>2, <2>2
  <2>3. ASSUME NEW e \in Tellings, e.event \notin {"connection", "connection.closed"},
               log'[c] = log[c] \/ log'[c] = Append(log[c], e),
               {phase[c], phase'[c]} \subseteq {"serving", "storing", "uploading", "finishing"}
        PROVE  /\ Seen(log'[c], "connection") =
                    IF Proto(c) \in Told /\ phase'[c] \in Serving \cup {"closed"} THEN {1} ELSE {}
               /\ Seen(log'[c], "connection.closed") =
                    IF Proto(c) \in Told /\ phase'[c] \in {"closing", "closed"}
                      THEN {Len(log'[c])} ELSE {}
    <3>1. /\ Seen(log'[c], "connection") = Seen(log[c], "connection")
          /\ Seen(log'[c], "connection.closed") = Seen(log[c], "connection.closed")
      <4>1. /\ Seen(Append(log[c], e), "connection") = Seen(log[c], "connection")
            /\ Seen(Append(log[c], e), "connection.closed") = Seen(log[c], "connection.closed")
        <5>1. e.event # "connection" /\ e.event # "connection.closed"
          BY <2>3
        <5> QED
          BY <1>2, <5>1, SeenAppended
      <4> QED
        BY <2>3, <4>1
    <3> QED
      BY <1>2, <2>3, <3>1
  <2>4. CASE Turned(c)
    <3>1. {phase[c], phase'[c]} \subseteq {"serving", "storing", "uploading", "finishing"}
      BY <2>4 DEF Turned, Moves, ValuesOK
    <3>2. \/ log'[c] = log[c]
          \/ \E e \in Tellings : e.event \in TurnEvents /\ log'[c] = Append(log[c], e)
      BY <2>4 DEF Turned, Tells, ValuesOK
    <3>3. TurnEvents \cap {"connection", "connection.closed"} = {}
      BY DEF TurnEvents
    <3>4. [event |-> "command", marked |-> FALSE, reading |-> 0, of |-> 0] \in Tellings
      BY DEF Tellings, EventNames, TurnEvents
    <3>5. PICK e \in Tellings :
            /\ e.event \notin {"connection", "connection.closed"}
            /\ log'[c] = log[c] \/ log'[c] = Append(log[c], e)
      BY <3>2, <3>3, <3>4
    <3> QED
      BY <2>3, <3>1, <3>5
  <2>5. CASE Reported(c)
    <3>1. {phase[c], phase'[c]} \subseteq {"serving", "storing", "uploading", "finishing"}
      BY <2>5 DEF Reported, Moves, ValuesOK
    <3>2. \E e \in Tellings :
            /\ e.event \in {"ftp.upload_rejected", "web.upload_rejected", "artifact.quarantined"}
            /\ log'[c] = Append(log[c], e)
      BY <2>5 DEF Reported, Tells, ValuesOK
    <3> QED
      BY <2>3, <3>1, <3>2
  <2>6. CASE Put(c)
    <3>1. phase[c] = "serving" /\ phase'[c] = "closing" /\ log' = log /\ Proto(c) \notin Told
      BY <2>6 DEF Put, Told, ValuesOK
    <3> QED
      BY <1>2, <3>1
  <2>7. CASE Take(c)
    <3>1. phase[c] = "storing" /\ phase'[c] = "uploading" /\ log' = log
      BY <2>7 DEF Take, ValuesOK
    <3> QED
      BY <1>2, <3>1
  <2>8. CASE Finish(c)
    <3> DEFINE e == Event("connection.closed", FALSE, 0)
    <3>1. e \in Tellings /\ e.event = "connection.closed"
      BY DEF Event, Tellings, EventNames
    <3>2. /\ phase[c] = "finishing" /\ phase'[c] = "closing"
          /\ IF Proto(c) \in Told THEN log'[c] = Append(log[c], e) ELSE log'[c] = log[c]
      BY <2>8 DEF Finish, ValuesOK
    <3> HIDE DEF e
    <3>3. CASE Proto(c) \in Told
      <4>1. /\ Seen(log'[c], "connection") = Seen(log[c], "connection")
            /\ Seen(log'[c], "connection.closed") =
                 Seen(log[c], "connection.closed") \cup {Len(log[c]) + 1}
            /\ Len(log'[c]) = Len(log[c]) + 1
        <5>1. log'[c] = Append(log[c], e) /\ e.event # "connection"
          BY <3>1, <3>2, <3>3
        <5>2. /\ Seen(Append(log[c], e), "connection") = Seen(log[c], "connection")
              /\ Seen(Append(log[c], e), "connection.closed") =
                   Seen(log[c], "connection.closed") \cup {Len(log[c]) + 1}
          BY <1>2, <3>1, <5>1, SeenAppended
        <5>3. Len(Append(log[c], e)) = Len(log[c]) + 1
          BY <1>2, <3>1
        <5> QED
          BY <5>1, <5>2, <5>3
      <4>2. Seen(log[c], "connection.closed") = {} /\ Seen(log[c], "connection") = {1}
        BY <1>2, <3>2, <3>3
      <4> QED
        BY <3>2, <3>3, <4>1, <4>2
    <3>4. CASE Proto(c) \notin Told
      BY <1>2, <3>2, <3>4
    <3> QED
      BY <3>3, <3>4
  <2>9. CASE Release(c)
    <3>1. phase[c] = "closing" /\ phase'[c] = "closed" /\ log' = log
      BY <2>9 DEF Release, ValuesOK
    <3> QED
      BY <1>2, <3>1
  <2>10. CASE Shifts(c)
    <3>1. /\ log' = log
          /\ \/ phase[c] = "waiting" /\ phase'[c] = "refused"
             \/ /\ phase[c] \in {"serving", "silent", "uploading"}
                /\ phase'[c] \in {"silent", "finishing"}
      BY <2>10 DEF Shifts, Moves, ValuesOK
    <3> QED
      BY <1>2, <2>2, <3>1
  <2> QED
    BY <2>1, <2>4, <2>5, <2>6, <2>7, <2>8, <2>9, <2>10
<1>5. ASSUME NEW d \in Conns \ {c}
      PROVE  BookendsOf(d)'
  <2>1. BookendsOf(d)
    BY BookendsEach
  <2> QED
    BY <1>1, <1>3, <2>1 DEF BookendsOf
<1>6. (\A d \in Conns : BookendsOf(d))'
  BY <1>1, <1>4, <1>5
<1> QED
  BY <1>6 DEF Bookended, BookendsOf, Positions, Seen

(***************************************************************************)
(* The broker's queues.                                                    *)
(***************************************************************************)
LEMMA IdsAppended ==
  ASSUME NEW queue \in Seq(UploadSet), NEW upload \in UploadSet
  PROVE  /\ Ids(Append(queue, upload)) = Ids(queue) \cup {upload.of}
         /\ Distinct(queue) /\ upload.of \notin Ids(queue) => Distinct(Append(queue, upload))
<1>1. /\ DOMAIN queue = 1..Len(queue) /\ Len(queue) \in Nat
      /\ DOMAIN Append(queue, upload) = 1..Len(queue) + 1
      /\ \A i \in 1..Len(queue) : Append(queue, upload)[i] = queue[i]
      /\ Append(queue, upload)[Len(queue) + 1] = upload
  OBVIOUS
<1>2. \A i \in 1..Len(queue) + 1 : i \in 1..Len(queue) \/ i = Len(queue) + 1
  BY <1>1
<1>3. Len(queue) + 1 \in 1..Len(queue) + 1 /\ 1..Len(queue) \subseteq 1..Len(queue) + 1
  BY <1>1
<1>4. Ids(Append(queue, upload)) = Ids(queue) \cup {upload.of}
  BY <1>1, <1>2, <1>3 DEF Ids
<1>5. ASSUME Distinct(queue), upload.of \notin Ids(queue),
             NEW i \in 1..Len(queue) + 1, NEW j \in 1..Len(queue) + 1,
             Append(queue, upload)[i].of = Append(queue, upload)[j].of
      PROVE  i = j
  <2>1. \A k \in 1..Len(queue) : queue[k].of # upload.of
    BY <1>1, <1>5 DEF Ids
  <2> QED
    BY <1>1, <1>2, <1>5, <2>1 DEF Distinct
<1> QED
  BY <1>1, <1>4, <1>5 DEF Distinct

LEMMA IdsTaken ==
  ASSUME NEW queue \in Seq(UploadSet), queue # <<>>, Distinct(queue)
  PROVE  /\ Ids(Tail(queue)) = Ids(queue) \ {Head(queue).of}
         /\ Distinct(Tail(queue)) /\ Head(queue).of \in Ids(queue)
<1>1. /\ Head(queue) = queue[1] /\ Len(queue) \in Nat \ {0} /\ DOMAIN queue = 1..Len(queue)
      /\ DOMAIN Tail(queue) = 1..(Len(queue) - 1)
      /\ \A i \in 1..(Len(queue) - 1) : Tail(queue)[i] = queue[i + 1]
  BY TakenSeq
<1>2. \A i \in 1..(Len(queue) - 1) : i + 1 \in 1..Len(queue) /\ i + 1 # 1
  BY <1>1
<1>3. \A k \in 1..Len(queue) : k = 1 \/ (k - 1 \in 1..(Len(queue) - 1) /\ (k - 1) + 1 = k)
  BY <1>1
<1>4. 1 \in 1..Len(queue)
  BY <1>1
<1>5. ASSUME NEW d \in Ids(Tail(queue))
      PROVE  d \in Ids(queue) /\ d # Head(queue).of
  <2>1. PICK i \in 1..(Len(queue) - 1) : d = queue[i + 1].of
    BY <1>1, <1>5 DEF Ids
  <2> QED
    BY <1>1, <1>2, <1>4, <2>1 DEF Ids, Distinct
<1>6. ASSUME NEW d \in Ids(queue), d # Head(queue).of
      PROVE  d \in Ids(Tail(queue))
  <2>1. PICK k \in 1..Len(queue) : d = queue[k].of
    BY <1>1, <1>6 DEF Ids
  <2>2. k # 1
    BY <1>1, <1>6, <2>1
  <2>3. k - 1 \in 1..(Len(queue) - 1) /\ Tail(queue)[k - 1] = queue[k]
    BY <1>1, <1>3, <2>2
  <2> QED
    BY <1>1, <2>1, <2>3 DEF Ids
<1>7. Distinct(Tail(queue))
  <2> SUFFICES ASSUME NEW i \in 1..(Len(queue) - 1), NEW j \in 1..(Len(queue) - 1),
                      Tail(queue)[i].of = Tail(queue)[j].of
               PROVE  i = j
    BY <1>1 DEF Distinct
  <2>1. i + 1 = j + 1
    BY <1>1, <1>2 DEF Distinct
  <2> QED
    BY <2>1
<1>8. Head(queue).of \in Ids(queue)
  BY <1>1, <1>4 DEF Ids
<1> QED
  BY <1>5, <1>6, <1>7, <1>8

LEMMA RangeAppended ==
  ASSUME NEW s \in Seq(Nat), NEW d \in Nat
  PROVE  /\ Range(Append(s, d)) = Range(s) \cup {d}
         /\ (\A i, j \in DOMAIN s : s[i] = s[j] => i = j) /\ d \notin Range(s)
              => \A i, j \in DOMAIN Append(s, d) : Append(s, d)[i] = Append(s, d)[j] => i = j
<1>1. /\ DOMAIN s = 1..Len(s) /\ Len(s) \in Nat
      /\ DOMAIN Append(s, d) = 1..Len(s) + 1
      /\ \A i \in 1..Len(s) : Append(s, d)[i] = s[i]
      /\ Append(s, d)[Len(s) + 1] = d
  OBVIOUS
<1>2. /\ \A i \in 1..Len(s) + 1 : i \in 1..Len(s) \/ i = Len(s) + 1
      /\ Len(s) + 1 \in 1..Len(s) + 1 /\ 1..Len(s) \subseteq 1..Len(s) + 1
  BY <1>1
<1>3. Range(Append(s, d)) = Range(s) \cup {d}
  BY <1>1, <1>2 DEF Range
<1>4. ASSUME \A i, j \in DOMAIN s : s[i] = s[j] => i = j, d \notin Range(s),
             NEW i \in 1..Len(s) + 1, NEW j \in 1..Len(s) + 1,
             Append(s, d)[i] = Append(s, d)[j]
      PROVE  i = j
  <2>1. \A k \in 1..Len(s) : s[k] # d
    BY <1>1, <1>4 DEF Range
  <2> QED
    BY <1>1, <1>2, <1>4, <2>1
<1> QED
  BY <1>1, <1>3, <1>4

LEMMA SentStays ==
  ASSUME ValuesOK, NEW c \in Conns,
         \/ Accepted(c) \/ Shifts(c) \/ Turned(c) \/ Put(c) \/ Take(c)
         \/ Reported(c) \/ Finish(c) \/ Release(c),
         NEW s, NEW d, Sent(d, s)
  PROVE  Sent(d, s)'
<1>1. /\ Conns' = Conns /\ script' = script /\ \A e \in Conns : Proto(e)' = Proto(e)
      /\ \E to \in Phases : phase' = [phase EXCEPT ![c] = to]
  BY StepMoves
<1>2. phase[c] \in {"closing", "closed"} => Release(c)
  BY DEF Accepted, Shifts, Turned, Put, Take, Reported, Finish, Release
<1>3. d = c => phase'[c] = "closed"
  BY <1>2 DEF Sent, Release, ValuesOK
<1>4. d # c => phase'[d] = phase[d]
  BY <1>1 DEF Sent, ValuesOK
<1> QED
  BY <1>1, <1>3, <1>4 DEF Sent

LEMMA BrokerStep ==
  ASSUME ValuesOK, BrokerOK, NEW c \in Conns,
         \/ Accepted(c) \/ Shifts(c) \/ Turned(c) \/ Put(c) \/ Take(c)
         \/ Reported(c) \/ Finish(c) \/ Release(c)
  PROVE  BrokerOK'
<1>1. Conns' = Conns /\ script' = script /\ Sources' = Sources
  BY StepMoves
<1>2. \A s, d : Sent(d, s) => Sent(d, s)'
  BY SentStays
<1>3. PICK s \in Sources : s = script[c].source
  BY ScriptOK
<1>7. waiting[s] \in Seq(UploadSet) /\ Distinct(waiting[s])
  BY DEF ValuesOK, BrokerOK
<1>4. CASE UNCHANGED <<waiting, dropped, taken>>
  BY <1>1, <1>2, <1>4 DEF BrokerOK
<1>5. CASE Put(c)
  <2>1. PICK upload \in UploadSet :
          /\ upload.of = c
          /\ \/ /\ waiting' = [waiting EXCEPT ![s] = Append(waiting[s], upload)]
                /\ dropped' = dropped
             \/ /\ waiting[s] # <<>>
                /\ waiting' = [waiting EXCEPT ![s] = Append(Tail(waiting[s]), upload)]
                /\ dropped' = dropped \cup {Head(waiting[s]).of}
    BY <1>3, <1>5, PutEffect
  <2>2. /\ phase[c] = "serving" /\ Proto(c) = "ftp_data" /\ taken' = taken
        /\ phase' = [phase EXCEPT ![c] = "closing"]
    BY <1>3, <1>5, PutEffect
  <2>3. Sent(c, s)'
    BY <1>1, <1>3, <1>7, <2>2 DEF Sent, Proto, ValuesOK
  <2>4. \A r : ~Sent(c, r)
    BY <2>2 DEF Sent
  <2>5. c \notin Ids(waiting[s]) /\ c \notin dropped \cup Range(taken)
    BY <1>3, <1>7, <2>4 DEF BrokerOK
  <2>6. \A r \in Sources : r # s => waiting'[r] = waiting[r]
    BY <1>3, <1>7, <2>1 DEF ValuesOK
  <2>7. \A r \in Sources : r # s => Ids(waiting[r]) \cap Ids(waiting[s]) = {}
    <3>1. ASSUME NEW r \in Sources, r # s, NEW d, d \in Ids(waiting[r]), d \in Ids(waiting[s])
          PROVE  FALSE
      <4>1. Sent(d, r) /\ Sent(d, s)
        BY <3>1 DEF BrokerOK
      <4> QED
        BY <3>1, <4>1 DEF Sent
    <3> QED
      BY <3>1
  <2>8. \A r \in Sources : c \notin Ids(waiting[r])
    BY <2>4 DEF BrokerOK
  <2>9. CASE /\ waiting' = [waiting EXCEPT ![s] = Append(waiting[s], upload)]
             /\ dropped' = dropped
    <3>1. /\ Ids(waiting'[s]) = Ids(waiting[s]) \cup {c} /\ Distinct(waiting'[s])
      BY <1>3, <1>7, <2>1, <2>5, <2>9, IdsAppended DEF ValuesOK
    <3>6. ASSUME NEW r \in Sources
          PROVE  /\ Distinct(waiting'[r]) /\ \A d \in Ids(waiting'[r]) : Sent(d, r)'
                 /\ Ids(waiting'[r]) \cap (dropped' \cup Range(taken)) = {}
      <4>1. CASE r = s
        BY <1>2, <1>3, <1>7, <2>3, <2>5, <2>9, <3>1, <4>1 DEF BrokerOK
      <4>2. CASE r # s
        BY <1>2, <2>6, <2>9, <3>1, <4>2 DEF BrokerOK
      <4> QED
        BY <4>1, <4>2
    <3>7. /\ \A d \in dropped' \cup Range(taken) : d \in Conns /\ Sent(d, script[d].source)'
          /\ Range(taken) \cap dropped' = {}
      BY <1>1, <1>2, <2>9, <3>1 DEF BrokerOK
    <3> QED
      BY <1>1, <2>2, <3>6, <3>7 DEF BrokerOK
  <2>10. CASE /\ waiting[s] # <<>>
              /\ waiting' = [waiting EXCEPT ![s] = Append(Tail(waiting[s]), upload)]
              /\ dropped' = dropped \cup {Head(waiting[s]).of}
    <3> DEFINE head == Head(waiting[s]).of
    <3>1. /\ Ids(Tail(waiting[s])) = Ids(waiting[s]) \ {head} /\ head \in Ids(waiting[s])
          /\ Distinct(Tail(waiting[s])) /\ Tail(waiting[s]) \in Seq(UploadSet)
      BY <1>3, <1>7, <2>10, IdsTaken, TakenSeq
    <3> HIDE DEF head
    <3>2. /\ Ids(waiting'[s]) = (Ids(waiting[s]) \ {head}) \cup {c} /\ Distinct(waiting'[s])
      <4>1. waiting'[s] = Append(Tail(waiting[s]), upload) /\ c \notin Ids(Tail(waiting[s]))
        BY <2>5, <2>10, <3>1 DEF ValuesOK
      <4> QED
        BY <2>1, <3>1, <4>1, IdsAppended, ZenonT(60)
    <3>3. dropped' = dropped \cup {head}
      BY <2>10 DEF head
    <3>4. head \in Conns /\ Sent(head, s) /\ script[head].source = s /\ head \notin Range(taken)
      BY <1>3, <1>7, <3>1 DEF BrokerOK, Sent
    <3>5. \A r \in Sources : r # s => head \notin Ids(waiting[r])
      BY <2>7, <3>1
    <3>6. ASSUME NEW r \in Sources
          PROVE  /\ Distinct(waiting'[r]) /\ \A d \in Ids(waiting'[r]) : Sent(d, r)'
                 /\ Ids(waiting'[r]) \cap (dropped' \cup Range(taken)) = {}
      <4>1. CASE r = s
        BY <1>2, <1>3, <1>7, <2>3, <2>5, <3>1, <3>2, <3>3, <3>4, <3>5, <4>1 DEF BrokerOK
      <4>2. CASE r # s
        BY <1>2, <2>6, <3>2, <3>3, <3>4, <3>5, <4>2 DEF BrokerOK
      <4> QED
        BY <4>1, <4>2
    <3>7. /\ \A d \in dropped' \cup Range(taken) : d \in Conns /\ Sent(d, script[d].source)'
          /\ Range(taken) \cap dropped' = {}
      BY <1>1, <1>2, <3>2, <3>3, <3>4, <3>5 DEF BrokerOK
    <3> QED
      BY <1>1, <2>2, <3>6, <3>7 DEF BrokerOK
  <2> QED
    BY <2>1, <2>9, <2>10
<1>6. CASE Take(c)
  <2> DEFINE head == Head(waiting[s]).of
  <2>1. /\ waiting[s] # <<>> /\ waiting' = [waiting EXCEPT ![s] = Tail(waiting[s])]
        /\ taken' = Append(taken, head) /\ dropped' = dropped /\ head \in Nat
    BY <1>3, <1>6, TakeEffect DEF UploadSet
  <2>2. /\ Ids(Tail(waiting[s])) = Ids(waiting[s]) \ {head} /\ head \in Ids(waiting[s])
        /\ Distinct(Tail(waiting[s]))
    BY <1>3, <1>7, <2>1, IdsTaken
  <2> HIDE DEF head
  <2>3. head \in Conns /\ Sent(head, s) /\ script[head].source = s
        /\ head \notin Range(taken) \cup dropped
    BY <1>3, <1>7, <2>2 DEF BrokerOK, Sent
  <2>4. \A r \in Sources : r # s => waiting'[r] = waiting[r] /\ head \notin Ids(waiting[r])
    BY <1>3, <1>7, <2>1, <2>2, <2>3 DEF BrokerOK, Sent, ValuesOK
  <2>5. waiting'[s] = Tail(waiting[s])
    BY <1>3, <1>7, <2>1 DEF ValuesOK
  <2>6. /\ Range(taken') = Range(taken) \cup {head}
        /\ \A i, j \in DOMAIN taken' : taken'[i] = taken'[j] => i = j
    BY <2>1, <2>3, RangeAppended DEF BrokerOK, ValuesOK
  <2> QED
    BY <1>1, <1>2, <1>3, <1>7, <2>1, <2>2, <2>3, <2>4, <2>5, <2>6 DEF BrokerOK
<1> QED
  BY <1>4, <1>5, <1>6 DEF Accepted, Shifts, Turned, Reported, Finish, Release

(***************************************************************************)
(* The uploads in the handlers' hands and what was told of them.           *)
(***************************************************************************)
NoNews ==
  \A d \in Conns : \A i \in DOMAIN log'[d] :
    log'[d][i].of # 0 => i \in DOMAIN log[d] /\ log'[d][i] = log[d][i]

(* A step that tells of no upload; at most, its connection takes one in hand
   that no other ever had. *)
LEMMA QuietStep ==
  ASSUME ValuesOK, HandsOK, TellingsOK, NEW c \in Conns, NEW to,
         script' = script, Conns' = Conns, phase' = [phase EXCEPT ![c] = to],
         \A d \in Conns \ {c} : conn'[d] = conn[d],
         Range(taken) \subseteq Range(taken'), kept \subseteq kept', NoNews,
         Ended(c) => to \in {"finishing", "closing", "closed"},
         to = "storing" => Proto(c) = "ftp" /\ conn'[c].upload.of = 0,
         to = "uploading" => /\ Owns(c, conn'[c].upload.of, Range(taken')) /\ conn'[c].upload.of # 0
                             /\ Unused(conn'[c].upload.of)
  PROVE  HandsOK' /\ TellingsOK'
<1>1. \A d, of : Owns(d, of, Range(taken)) => Owns(d, of, Range(taken'))
  BY DEF Owns
<1>2. \A d \in Conns : phase'[d] = IF d = c THEN to ELSE phase[d]
  BY DEF ValuesOK
<1>3. \A d \in Conns : Ended(d) => Ended(d)'
  BY <1>2 DEF Ended
<1>4. ASSUME NEW d \in Conns, NEW i \in DOMAIN log'[d], log'[d][i].of # 0
      PROVE  i \in DOMAIN log[d] /\ log'[d][i] = log[d][i]
  BY <1>4 DEF NoNews
<1>5. TellingsOK'
  <2> SUFFICES ASSUME NEW d \in Conns, NEW i \in DOMAIN log'[d], log'[d][i].of # 0
               PROVE  /\ Owns(d, log'[d][i].of, Range(taken'))
                      /\ Proto(d) = "web" => Ended(d)'
                      /\ \A e \in Conns : \A j \in DOMAIN log'[e] :
                           log'[e][j].of = log'[d][i].of => e = d /\ j = i
                      /\ log'[d][i].event = "artifact.quarantined" =>
                           \E k \in kept' : k.of = log'[d][i].of /\ ~k.tooLarge
    BY DEF TellingsOK, Owns, Proto
  <2>1. i \in DOMAIN log[d] /\ log'[d][i] = log[d][i] /\ log[d][i].of # 0
    BY <1>4
  <2>2. \A e \in Conns : \A j \in DOMAIN log'[e] :
          log'[e][j].of = log'[d][i].of => e = d /\ j = i
    BY <1>4, <2>1 DEF TellingsOK
  <2> QED
    BY <1>1, <1>3, <2>1, <2>2 DEF TellingsOK
<1>6. HandsOK'
  <2> SUFFICES ASSUME NEW d \in Conns
               PROVE  /\ phase'[d] = "storing" => Proto(d) = "ftp" /\ conn'[d].upload.of = 0
                      /\ phase'[d] = "uploading" =>
                           /\ conn'[d].upload.of # 0 /\ Owns(d, conn'[d].upload.of, Range(taken'))
                           /\ \A e \in Conns :
                                /\ phase'[e] = "uploading" /\ conn'[e].upload.of = conn'[d].upload.of
                                     => e = d
                                /\ \A j \in DOMAIN log'[e] : log'[e][j].of # conn'[d].upload.of
    BY DEF HandsOK, Owns, Proto
  <2>1. CASE d = c
    BY <1>2, <1>4, <2>1 DEF HandsOK, Unused
  <2>2. CASE d # c
    <3>1. phase'[d] = phase[d] /\ conn'[d] = conn[d]
      BY <1>2, <2>2
    <3>2. phase[d] = "uploading" => conn'[d].upload.of # 0 /\ Owns(d, conn'[d].upload.of, Range(taken'))
      BY <1>1, <3>1 DEF HandsOK
    <3>3. ASSUME phase[d] = "uploading", NEW e \in Conns, phase'[e] = "uploading",
                 conn'[e].upload.of = conn'[d].upload.of
          PROVE  e = d
      BY <1>2, <3>1, <3>3 DEF HandsOK, Unused
    <3>4. ASSUME phase[d] = "uploading", NEW e \in Conns, NEW j \in DOMAIN log'[e],
                 log'[e][j].of = conn'[d].upload.of
          PROVE  FALSE
      <4>1. conn[d].upload.of # 0
        BY <3>4 DEF HandsOK
      <4> QED
        BY <1>4, <3>1, <3>4, <4>1 DEF HandsOK
    <3> QED
      BY <3>1, <3>2, <3>3, <3>4 DEF HandsOK
  <2> QED
    BY <2>1, <2>2
<1> QED
  BY <1>5, <1>6

LEMMA OwnedStates ==
  ASSUME ValuesOK, BrokerOK, HandsOK, TellingsOK, NEW d \in Conns, NEW of
  PROVE  /\ phase[d] = "uploading" /\ conn[d].upload.of = of => Owns(d, of, Range(taken))
         /\ \A j \in DOMAIN log[d] : log[d][j].of = of /\ of # 0 =>
              Owns(d, of, Range(taken)) /\ (Proto(d) = "web" => Ended(d))
BY DEF HandsOK, TellingsOK

(* Neither the upload of a web request that is being read nor one that waits
   with the broker was in a hand before. *)
LEMMA UnusedUploads ==
  ASSUME ValuesOK, BrokerOK, HandsOK, TellingsOK, NEW of \in Conns,
         \/ Proto(of) = "web" /\ phase[of] = "serving"
         \/ Proto(of) = "ftp_data" /\ of \notin Range(taken)
  PROVE  Unused(of)
<1>1. \A d \in Conns : Owns(d, of, Range(taken)) => Proto(of) = "web" /\ d = of
  <2>1. of \in Range(taken) => Proto(of) = "ftp_data"
    BY DEF BrokerOK, Sent
  <2> QED
    BY <2>1 DEF Owns
<1>2. of # 0
  BY ScriptOK
<1>3. ASSUME NEW d \in Conns
      PROVE  /\ phase[d] = "uploading" => conn[d].upload.of # of
             /\ \A j \in DOMAIN log[d] : log[d][j].of # of
  BY <1>1, <1>2, OwnedStates DEF Ended
<1> QED
  BY <1>3 DEF Unused

LEMMA LogGrows ==
  ASSUME ValuesOK, NEW c \in Conns, NEW e \in Tellings, Conns' = Conns,
         log' = [log EXCEPT ![c] = Append(log[c], e)]
  PROVE  /\ DOMAIN log'[c] = DOMAIN log[c] \cup {Len(log[c]) + 1}
         /\ Len(log[c]) + 1 \notin DOMAIN log[c]
         /\ log'[c][Len(log[c]) + 1] = e
         /\ \A i \in DOMAIN log[c] : log'[c][i] = log[c][i]
         /\ \A d \in Conns \ {c} : log'[d] = log[d]
<1>1. log[c] \in Seq(Tellings) /\ log'[c] = Append(log[c], e)
      /\ \A d \in Conns \ {c} : log'[d] = log[d]
  BY DEF ValuesOK
<1>2. /\ DOMAIN log[c] = 1..Len(log[c]) /\ Len(log[c]) \in Nat
      /\ DOMAIN Append(log[c], e) = 1..Len(log[c]) + 1
      /\ \A i \in 1..Len(log[c]) : Append(log[c], e)[i] = log[c][i]
      /\ Append(log[c], e)[Len(log[c]) + 1] = e
  BY <1>1
<1>3. 1..Len(log[c]) + 1 = 1..Len(log[c]) \cup {Len(log[c]) + 1}
  BY <1>2
<1> QED
  BY <1>1, <1>2, <1>3

LEMMA NoNewsOf ==
  ASSUME ValuesOK, NEW c \in Conns, Conns' = Conns,
         \/ log' = log
         \/ log' = [log EXCEPT ![c] = <<Event("connection", FALSE, 0)>>]
         \/ \E e \in Tellings : e.of = 0 /\ log' = [log EXCEPT ![c] = Append(log[c], e)]
  PROVE  NoNews
<1>1. CASE log' = log
  BY <1>1 DEF NoNews
<1>2. CASE log' = [log EXCEPT ![c] = <<Event("connection", FALSE, 0)>>]
  BY <1>2 DEF NoNews, Event, ValuesOK
<1>3. CASE \E e \in Tellings : e.of = 0 /\ log' = [log EXCEPT ![c] = Append(log[c], e)]
  BY <1>3, LogGrows DEF NoNews
<1> QED
  BY <1>1, <1>2, <1>3

(* An upload is told of by the handler that has it in hand. *)
LEMMA ReportStep ==
  ASSUME ValuesOK, HandsOK, TellingsOK, NEW c \in Conns, Reported(c), phase[c] = "uploading"
  PROVE  HandsOK' /\ TellingsOK'
<1>1. /\ script' = script /\ Conns' = Conns /\ conn' = conn /\ taken' = taken /\ kept \subseteq kept'
      /\ \A d \in Conns : Proto(d)' = Proto(d)
  BY DEF Reported, Conns, Proto
<1>2. PICK to \in {"serving", "finishing"} :
        phase' = [phase EXCEPT ![c] = to] /\ (Proto(c) = "web" => to = "finishing")
  BY DEF Reported, Moves
<1>3. PICK e \in Tellings :
        /\ e.of = conn[c].upload.of /\ log' = [log EXCEPT ![c] = Append(log[c], e)]
        /\ e.event = "artifact.quarantined" => \E k \in kept' : k.of = e.of /\ ~k.tooLarge
  BY DEF Reported, Tells
<1>4. \A d \in Conns : phase'[d] = IF d = c THEN to ELSE phase[d]
  BY <1>2 DEF ValuesOK
<1> DEFINE new == Len(log[c]) + 1
<1>5. /\ DOMAIN log'[c] = DOMAIN log[c] \cup {new} /\ new \notin DOMAIN log[c]
      /\ log'[c][new] = e
      /\ \A i \in DOMAIN log[c] : log'[c][i] = log[c][i]
      /\ \A d \in Conns \ {c} : log'[d] = log[d]
  BY <1>1, <1>3, LogGrows
<1> HIDE DEF new
<1>6. ASSUME NEW d \in Conns, NEW i \in DOMAIN log'[d]
      PROVE  \/ i \in DOMAIN log[d] /\ log'[d][i] = log[d][i]
             \/ d = c /\ i = new /\ log'[d][i] = e
  BY <1>5, <1>6
<1>7. /\ e.of # 0 /\ Owns(c, e.of, Range(taken))
      /\ \A d \in Conns :
           /\ phase[d] = "uploading" /\ conn[d].upload.of = e.of => d = c
           /\ \A j \in DOMAIN log[d] : log[d][j].of # e.of
  BY <1>3 DEF HandsOK
<1>8. TellingsOK'
  <2> SUFFICES ASSUME NEW d \in Conns, NEW i \in DOMAIN log'[d], log'[d][i].of # 0
               PROVE  /\ Owns(d, log'[d][i].of, Range(taken))
                      /\ Proto(d) = "web" => Ended(d)'
                      /\ \A b \in Conns : \A j \in DOMAIN log'[b] :
                           log'[b][j].of = log'[d][i].of => b = d /\ j = i
                      /\ log'[d][i].event = "artifact.quarantined" =>
                           \E k \in kept' : k.of = log'[d][i].of /\ ~k.tooLarge
    BY <1>1 DEF TellingsOK, Owns, Proto
  <2>1. CASE i \in DOMAIN log[d] /\ log'[d][i] = log[d][i]
    <3>1. /\ Owns(d, log[d][i].of, Range(taken))
          /\ Proto(d) = "web" => Ended(d)
          /\ log[d][i].event = "artifact.quarantined" =>
               \E k \in kept : k.of = log[d][i].of /\ ~k.tooLarge
      BY <2>1 DEF TellingsOK
    <3>2. Ended(d) => Ended(d)'
      BY <1>4 DEF Ended
    <3>3. ASSUME NEW b \in Conns, NEW j \in DOMAIN log'[b], log'[b][j].of = log'[d][i].of
          PROVE  b = d /\ j = i
      <4>1. CASE j \in DOMAIN log[b] /\ log'[b][j] = log[b][j]
        BY <2>1, <3>3, <4>1 DEF TellingsOK
      <4>2. CASE log'[b][j] = e
        BY <1>7, <2>1, <3>3, <4>2
      <4> QED
        BY <1>6, <3>3, <4>1, <4>2
    <3> QED
      BY <1>1, <2>1, <3>1, <3>2, <3>3
  <2>2. CASE d = c /\ i = new /\ log'[d][i] = e
    <3>1. Proto(d) = "web" => Ended(d)'
      BY <1>2, <1>4, <2>2 DEF Ended
    <3>2. ASSUME NEW b \in Conns, NEW j \in DOMAIN log'[b], log'[b][j].of = e.of
          PROVE  b = d /\ j = i
      BY <1>6, <1>7, <2>2, <3>2
    <3> QED
      BY <1>3, <1>7, <2>2, <3>1, <3>2
  <2> QED
    BY <1>6, <2>1, <2>2
<1>9. HandsOK'
  <2> SUFFICES ASSUME NEW d \in Conns
               PROVE  /\ phase'[d] = "storing" => Proto(d) = "ftp" /\ conn[d].upload.of = 0
                      /\ phase'[d] = "uploading" =>
                           /\ conn[d].upload.of # 0 /\ Owns(d, conn[d].upload.of, Range(taken))
                           /\ \A b \in Conns :
                                /\ phase'[b] = "uploading" /\ conn[b].upload.of = conn[d].upload.of
                                     => b = d
                                /\ \A j \in DOMAIN log'[b] : log'[b][j].of # conn[d].upload.of
    BY <1>1 DEF HandsOK, Owns, Proto
  <2>1. CASE d = c
    BY <1>2, <1>4, <2>1
  <2>2. CASE d # c
    <3>1. phase'[d] = phase[d] /\ \A b \in Conns : phase'[b] = "uploading" => phase[b] = "uploading"
      BY <1>2, <1>4, <2>2
    <3>2. phase[d] = "uploading" => conn[d].upload.of # e.of
      BY <1>7, <2>2
    <3> QED
      BY <1>6, <3>1, <3>2 DEF HandsOK
  <2> QED
    BY <2>1, <2>2
<1> QED
  BY <1>8, <1>9

LEMMA HandsStep ==
  ASSUME ValuesOK, BrokerOK, HandsOK, TellingsOK, NEW c \in Conns,
         \/ Accepted(c) \/ Shifts(c) \/ Turned(c) \/ Put(c) \/ Take(c)
         \/ Reported(c) \/ Finish(c) \/ Release(c)
  PROVE  HandsOK' /\ TellingsOK'
<1>1. script' = script /\ Conns' = Conns /\ \A d \in Conns : Proto(d)' = Proto(d)
  BY StepMoves
<1>2. ASSUME conn' = conn, taken' = taken, kept \subseteq kept',
             \/ log' = log
             \/ log' = [log EXCEPT ![c] = <<Event("connection", FALSE, 0)>>]
             \/ \E e \in Tellings : e.of = 0 /\ log' = [log EXCEPT ![c] = Append(log[c], e)],
             \E to \in Phases \ {"storing", "uploading"} :
               /\ phase' = [phase EXCEPT ![c] = to]
               /\ Ended(c) => to \in {"finishing", "closing", "closed"}
      PROVE  HandsOK' /\ TellingsOK'
  <2>1. NoNews
    BY <1>1, <1>2, NoNewsOf
  <2>2. Range(taken) \subseteq Range(taken') /\ kept \subseteq kept'
        /\ \A d \in Conns \ {c} : conn'[d] = conn[d]
    BY <1>2
  <2>3. PICK to \in Phases \ {"storing", "uploading"} :
          /\ phase' = [phase EXCEPT ![c] = to]
          /\ Ended(c) => to \in {"finishing", "closing", "closed"}
    BY <1>2
  <2> QED
    BY <1>1, <2>1, <2>2, <2>3, QuietStep
<1>3. CASE Accepted(c)
  BY <1>2, <1>3 DEF Accepted, Moves, Ended, Phases, Serving
<1>4. CASE Shifts(c)
  <2>1. \E to \in Phases \ {"storing", "uploading"} : phase' = [phase EXCEPT ![c] = to]
    BY <1>4 DEF Shifts, Moves, Phases, Serving
  <2>2. ~Ended(c)
    BY <1>4 DEF Shifts, Ended
  <2> QED
    BY <1>2, <1>4, <2>1, <2>2 DEF Shifts
<1>5. CASE Put(c)
  <2>1. /\ phase[c] = "serving" /\ phase' = [phase EXCEPT ![c] = "closing"]
        /\ UNCHANGED <<conn, log, kept, taken>>
    BY <1>5, PutEffect
  <2> QED
    BY <1>2, <2>1 DEF Ended, Phases, Serving
<1>6. CASE Finish(c)
  <2> DEFINE e == Event("connection.closed", FALSE, 0)
  <2>1. e \in Tellings /\ e.of = 0
    BY DEF Event, Tellings, EventNames
  <2>2. log' = log \/ log' = [log EXCEPT ![c] = Append(log[c], e)]
    BY <1>6 DEF Finish, ValuesOK
  <2> HIDE DEF e
  <2> QED
    BY <1>2, <1>6, <2>1, <2>2 DEF Finish, Ended, Phases, Serving
<1>7. CASE Release(c)
  BY <1>2, <1>7 DEF Release, Ended, Phases
<1>8. CASE Reported(c)
  <2>1. CASE phase[c] = "uploading"
    BY <1>8, <2>1, ReportStep
  <2>2. CASE phase[c] = "storing"
    <3>1. conn[c].upload.of = 0
      BY <2>2 DEF HandsOK
    <3>2. \E e \in Tellings : e.of = 0 /\ log' = [log EXCEPT ![c] = Append(log[c], e)]
      BY <1>8, <3>1 DEF Reported, Tells
    <3>3. /\ conn' = conn /\ taken' = taken /\ kept \subseteq kept' /\ ~Ended(c)
          /\ \E to \in Phases \ {"storing", "uploading"} : phase' = [phase EXCEPT ![c] = to]
      BY <1>8, <2>2 DEF Reported, Moves, Ended, Phases, Serving
    <3> QED
      BY <1>2, <3>2, <3>3
  <2> QED
    BY <1>8, <2>1, <2>2 DEF Reported
<1>9. CASE Turned(c)
  <2>1. PICK to \in {"serving", "storing", "uploading", "finishing"} :
          /\ phase' = [phase EXCEPT ![c] = to]
          /\ to = "storing" => Proto(c) = "ftp" /\ conn'[c].upload.of = 0
          /\ to = "uploading" => Proto(c) = "web" /\ conn'[c].upload.of = c
    BY <1>9 DEF Turned, Moves
  <2>2. /\ phase[c] = "serving" /\ taken' = taken /\ kept' = kept /\ ~Ended(c)
        /\ \A d \in Conns \ {c} : conn'[d] = conn[d]
    BY <1>9 DEF Turned, Ended
  <2>3. NoNews
    BY <1>1, <1>9, NoNewsOf DEF Turned, Tells
  <2>4. to = "uploading" => /\ Owns(c, conn'[c].upload.of, Range(taken'))
                            /\ conn'[c].upload.of # 0 /\ Unused(conn'[c].upload.of)
    BY <2>1, <2>2, UnusedUploads, ScriptOK DEF Owns
  <2>5. Range(taken) \subseteq Range(taken') /\ kept \subseteq kept'
    BY <2>2
  <2> QED
    BY <1>1, <2>1, <2>2, <2>3, <2>4, <2>5, QuietStep
<1>10. CASE Take(c)
  <2>1. PICK s \in Sources : s = script[c].source
    BY ScriptOK
  <2> DEFINE head == Head(waiting[s]).of
  <2>2. /\ phase[c] = "storing" /\ waiting[s] # <<>>
        /\ phase' = [phase EXCEPT ![c] = "uploading"]
        /\ conn'[c].upload.of = head /\ head \in Nat
        /\ \A d \in Conns \ {c} : conn'[d] = conn[d]
        /\ taken' = Append(taken, head) /\ log' = log /\ kept' = kept
    BY <1>10, <2>1, TakeEffect DEF UploadSet
  <2>3. head \in Ids(waiting[s])
    BY <2>2, IdsTaken DEF ValuesOK, BrokerOK
  <2> HIDE DEF head
  <2>4. Sent(head, s) /\ head \notin Range(taken)
    BY <2>3 DEF BrokerOK
  <2>5. Unused(head) /\ head # 0
    BY <2>4, UnusedUploads, ScriptOK DEF Sent
  <2>6. Range(taken') = Range(taken) \cup {head}
    BY <2>2, RangeAppended DEF ValuesOK
  <2>7. Owns(c, head, Range(taken'))
    BY <2>1, <2>2, <2>4, <2>6 DEF Owns, HandsOK, Sent
  <2>8. NoNews /\ ~Ended(c) /\ kept \subseteq kept' /\ Range(taken) \subseteq Range(taken')
    BY <2>2, <2>6 DEF NoNews, Ended
  <2> QED
    BY <1>1, <2>2, <2>5, <2>7, <2>8, QuietStep
<1> QED
  BY <1>3, <1>4, <1>5, <1>6, <1>7, <1>8, <1>9, <1>10

-----------------------------------------------------------------------------
LEMMA ServerInit ==
  ASSUME Init
  PROVE  ServerInv
<1>1. ValuesOK
  BY InitValues
<1>2. SlotsHeld
  <2>1. ASSUME NEW p \in Bounded
        PROVE  {c \in Conns : Proto(c) = p /\ phase[c] \in Serving} = {}
    BY DEF Init, Serving
  <2>2. Cardinality({}) = 0
    BY FS_EmptySet
  <2> QED
    BY <2>1, <2>2 DEF Init, SlotsHeld
<1>3. Bookended
  BY DEF Init, Bookended, Positions, Serving
<1>4. Range(taken) = {} /\ dropped = {} /\ \A s \in Sources : Ids(waiting[s]) = {}
  BY DEF Init, Range, Ids
<1>5. BrokerOK
  BY <1>4 DEF Init, BrokerOK, Distinct
<1>6. HandsOK /\ TellingsOK
  BY DEF Init, HandsOK, TellingsOK
<1> QED
  BY <1>1, <1>2, <1>3, <1>5, <1>6 DEF ServerInv

LEMMA ServerNext ==
  ASSUME ServerInv, [Next]_vars
  PROVE  ServerInv'
<1>1. CASE UNCHANGED vars
  <2>1. /\ Conns' = Conns /\ Sources' = Sources /\ \A c \in Conns : Proto(c)' = Proto(c)
    BY <1>1 DEF vars, Conns, Sources, Proto
  <2>2. ValuesOK' /\ SlotsHeld' /\ Bookended'
    BY <1>1, <2>1 DEF ServerInv, ValuesOK, SlotsHeld, Bookended, Positions, vars
  <2>3. BrokerOK' /\ HandsOK' /\ TellingsOK'
    BY <1>1, <2>1 DEF ServerInv, BrokerOK, Sent, Proto, HandsOK, TellingsOK, Owns, Ended, vars
  <2> QED
    BY <2>2, <2>3 DEF ServerInv
<1>2. CASE Next
  <2>1. PICK c \in Conns :
          \/ Accepted(c) \/ Shifts(c) \/ Turned(c) \/ Put(c) \/ Take(c)
          \/ Reported(c) \/ Finish(c) \/ Release(c)
    BY <1>2, StepKinds DEF ServerInv
  <2> QED
    BY <2>1, ValuesStep, SlotsStep, BookendedStep, BrokerStep, HandsStep DEF ServerInv
<1> QED
  BY <1>1, <1>2

(* The invariant that ties the listeners' threads, the broker and the
   evidence together holds of every run of the decoys (server.py:
   process_request; legacy.py: FTPDataBroker; web_decoy.py). *)
THEOREM ServerInvHolds == Spec => []ServerInv
<1>1. Init => ServerInv
  BY ServerInit
<1>2. ServerInv /\ [Next]_vars => ServerInv'
  BY ServerNext
<1> QED
  BY <1>1, <1>2, PTL DEF Spec

(* A listener's semaphore counts exactly the connections being served, so no
   way for a connection to end wears it out (server.py: process_request,
   process_request_thread). *)
THEOREM SlotsAreHeld == Spec => []SlotsHeld
<1>1. ServerInv => SlotsHeld
  BY DEF ServerInv
<1> QED
  BY <1>1, ServerInvHolds, PTL

(* However a handler ends, its evidence opens with `connection` and, once its
   thread is done, closes with `connection.closed` (handle, finish). *)
THEOREM ConnectionsAreBookended == Spec => []Bookended
<1>1. ServerInv => Bookended
  BY DEF ServerInv
<1> QED
  BY <1>1, ServerInvHolds, PTL

(* No upload is used for two STORs, lost to another source or told of twice,
   and what is told as quarantined is kept (legacy.py: FTPDataBroker;
   client.py: quarantine_artifact). *)
THEOREM UploadsAreTold == Spec => []UploadsTold
<1>1. ServerInv => UploadsTold
  <2> SUFFICES ASSUME ServerInv PROVE UploadsTold
    OBVIOUS
  <2> USE DEF ServerInv
  <2>1. \A i, j \in DOMAIN taken : taken[i] = taken[j] => i = j
    BY DEF BrokerOK
  <2>2. Range(taken) \cap (Waiting \cup dropped) = {}
    <3>1. Waiting = UNION {Ids(waiting[s]) : s \in Sources}
      BY DEF Waiting, Ids
    <3> QED
      BY <3>1 DEF BrokerOK
  <2>3. ASSUME NEW c \in Conns, NEW i \in DOMAIN log[c], log[c][i].of # 0
        PROVE  /\ script[log[c][i].of].source = script[c].source
               /\ \A d \in Conns : \A j \in DOMAIN log[d] :
                    log[d][j].of = log[c][i].of => <<c, i>> = <<d, j>>
               /\ log[c][i].event = "artifact.quarantined" =>
                    \E k \in kept : k.of = log[c][i].of /\ ~k.tooLarge
    <3>1. Owns(c, log[c][i].of, Range(taken))
      BY <2>3 DEF TellingsOK
    <3>2. script[log[c][i].of].source = script[c].source
      BY <3>1 DEF Owns
    <3> QED
      BY <2>3, <3>2 DEF TellingsOK
  <2> QED
    BY <2>1, <2>2, <2>3 DEF UploadsTold
<1> QED
  BY <1>1, ServerInvHolds, PTL

-----------------------------------------------------------------------------
(***************************************************************************)
(* The readings of the text protocols.                                     *)
(***************************************************************************)
LEMMA TextReading ==
  ASSUME ValuesOK, NEW c \in Texts, NEW n \in DOMAIN script[c].input
  PROVE  LET r == script[c].input[n] IN
         /\ c \in Conns /\ Proto(c) \in Readers \ {"ssh"} /\ n \in Nat \ {0}
         /\ Len(script[c].input) \in Nat /\ DOMAIN script[c].input = 1..Len(script[c].input)
         /\ CanRead(Proto(c), n, r)
         /\ r.verb \in Reads(Proto(c)) /\ r.cut \in BOOLEAN
         /\ r.verb \in Bare(Proto(c)) => ~r.cut
<1>1. c \in Conns /\ Proto(c) \in Readers \ {"ssh"}
  BY DEF Texts, Told, Bounded, Readers, Protocols
<1>2. DOMAIN script[c].input = 1..Len(script[c].input) /\ Len(script[c].input) \in Nat
  BY <1>1, DecoyAssumption DEF ValuesOK, Conns
<1>3. CanRead(Proto(c), n, script[c].input[n])
  BY <1>1, <1>2, ScriptOK
<1> QED
  BY <1>1, <1>2, <1>3 DEF CanRead, Readers

LEMMA CutPlain ==
  ASSUME ValuesOK, NEW c \in Texts, NEW n \in DOMAIN script[c].input,
         Proto(c) # "telnet", script[c].input[n].verb # "PASS"
  PROVE  script[c].input[n].cut = Cut(c, n)
<1>1. script[c].input[n].cut \in BOOLEAN
  BY TextReading
<1>2. Quotes(c, n) = {n}
  BY DEF Quotes
<1> QED
  BY <1>1, <1>2 DEF Cut

LEMMA CutTelnet ==
  ASSUME ValuesOK, NEW c \in Texts, NEW n \in DOMAIN script[c].input, Proto(c) = "telnet",
         NEW userCut, userCut = script[c].input[1].cut
  PROVE  Marks({userCut, script[c].input[n].cut}) = Cut(c, n)
<1>1. Quotes(c, n) = {n, 1}
  BY DEF Quotes
<1> QED
  BY <1>1 DEF Cut, Marks

LEMMA CutPass ==
  ASSUME ValuesOK, NEW c \in Texts, NEW n \in DOMAIN script[c].input, Proto(c) = "ftp",
         script[c].input[n].verb = "PASS",
         NEW userCut, userCut = UserCut(c, n - 1)
  PROVE  Marks({userCut, script[c].input[n].cut}) = Cut(c, n)
<1> DEFINE input == script[c].input
<1>1. n \in Nat \ {0} /\ input[n].verb # "USER"
  BY TextReading
<1>2. Quotes(c, n) = {n} \cup {j \in 1..n : input[j].verb = "USER"
                                /\ \A k \in j+1..n : input[k].verb # "USER"}
  BY DEF Quotes
<1>3. \A j \in 1..(n - 1) :
        (\A k \in j+1..n : input[k].verb # "USER") <=> (\A k \in j+1..(n - 1) : input[k].verb # "USER")
  <2> SUFFICES ASSUME NEW j \in 1..(n - 1), \A k \in j+1..(n - 1) : input[k].verb # "USER",
                      NEW k \in j+1..n
               PROVE  input[k].verb # "USER"
    BY <1>1
  <2>1. k = n \/ k \in j+1..(n - 1)
    BY <1>1
  <2> QED
    BY <1>1, <2>1
<1>4. \A j \in 1..n : j = n \/ j \in 1..(n - 1)
  BY <1>1
<1>5. 1..(n - 1) \subseteq 1..n
  BY <1>1
<1> HIDE DEF input
<1>6. UserCut(c, n - 1) <=> \E j \in Quotes(c, n) \ {n} : input[j].cut
  BY <1>1, <1>2, <1>3, <1>4, <1>5 DEF UserCut, input
<1>7. Cut(c, n) <=> input[n].cut \/ \E j \in Quotes(c, n) \ {n} : input[j].cut
  BY <1>2 DEF Cut, input
<1>8. Marks({userCut, input[n].cut}) <=> UserCut(c, n - 1) \/ input[n].cut
  BY DEF Marks
<1> QED
  BY <1>6, <1>7, <1>8 DEF Marks, Cut, input

(* What a turn emits tells the marks of what it quotes; a turn that emits
   nothing needs to emit nothing, or stores an upload. *)
LEMMA TextTurn ==
  ASSUME ValuesOK, NEW c \in Texts, HandlerOf(c, conn[c], phase[c]), phase[c] = "serving",
         NEW n \in DOMAIN script[c].input, n = Read(c) + 1,
         NEW r, r = script[c].input[n], NEW turn, turn = TurnOn(c, r)
  PROVE  /\ turn.event = None => Untold(c, n) \/ (Stored(c, n) /\ turn.next # "serving")
         /\ \/ turn.event = None \/ turn.event = "sensor.input_rejected"
            \/ turn.marked = Cut(c, n)
<1> USE NoneAssumption DEF Turn, Goes, Ends, Quiet, Leaves, Rejects, TurnEvents
<1>1. /\ c \in Conns /\ Proto(c) \in Readers \ {"ssh"} /\ r.verb \in Reads(Proto(c))
      /\ r.cut \in BOOLEAN /\ (r.verb \in Bare(Proto(c)) => ~r.cut) /\ Read(c) \in Nat
      /\ conn[c].userCut \in BOOLEAN
  BY TextReading, ConnFields DEF Read
<1>2. Proto(c) # "telnet" /\ r.verb # "PASS" => r.cut = Cut(c, n)
  BY CutPlain
<1>3. CASE Proto(c) = "generic"
  <2>1. r.verb # "PASS" /\ r.cut = Cut(c, n) /\ ~r.cut
    BY <1>1, <1>2, <1>3 DEF Reads, Bare
  <2> QED
    BY <1>1, <1>3, <2>1 DEF TurnOn, GenericTurn
<1>4. CASE Proto(c) = "smtp"
  <2>1. /\ r.verb # "PASS" /\ r.cut = Cut(c, n)
        /\ r.verb \in {"DATA", "QUIT", "BLANK", "TOOLONG"} => ~r.cut
    BY <1>1, <1>2, <1>4 DEF Reads, SmtpReads, Bare
  <2> QED
    BY <1>1, <1>4, <2>1 DEF TurnOn, SmtpTurn, Untold
<1>5. CASE Proto(c) = "redis"
  <2>1. r.verb # "PASS" /\ r.cut = Cut(c, n)
    BY <1>1, <1>2, <1>5 DEF Reads, RedisReads
  <2> QED
    BY <1>1, <1>5, <2>1 DEF TurnOn, RedisTurn
<1>6. CASE Proto(c) = "mysql"
  <2>1. r.verb # "PASS" /\ r.cut = Cut(c, n)
    BY <1>1, <1>2, <1>6 DEF Reads, MysqlReads
  <2> QED
    BY <1>1, <1>6, <2>1 DEF TurnOn, MysqlTurn
<1>7. CASE Proto(c) = "smb"
  <2>1. r.verb # "PASS" /\ r.cut = Cut(c, n) /\ ~r.cut
    BY <1>1, <1>2, <1>7 DEF Reads, SmbReads, Bare
  <2> QED
    BY <1>1, <1>7, <2>1 DEF TurnOn, SmbTurn
<1>8. CASE Proto(c) = "telnet"
  <2>1. Read(c) = 0 \/ (Read(c) = 1 /\ conn[c].userCut = script[c].input[1].cut)
    BY <1>1, <1>8, TextReading, SMTT(30) DEF HandlerOf, Read
  <2>2. r.verb = "TOOLONG" => turn.event = "sensor.input_rejected"
    BY <1>8 DEF TurnOn, TelnetTurn
  <2>3. r.verb # "TOOLONG" /\ Read(c) = 0 => turn.event = None /\ Untold(c, n)
    BY <1>8 DEF TurnOn, TelnetTurn, Untold
  <2>4. r.verb # "TOOLONG" /\ Read(c) # 0
          => turn.event = "credential" /\ turn.marked = Marks({conn[c].userCut, r.cut})
    BY <1>8 DEF TurnOn, TelnetTurn
  <2>5. Read(c) = 1 => Marks({conn[c].userCut, r.cut}) = Cut(c, n)
    BY <1>8, <2>1, CutTelnet
  <2> QED
    BY <2>1, <2>2, <2>3, <2>4, <2>5
<1>9. CASE Proto(c) = "ftp"
  <2>1. r.verb = "PASS" => Marks({conn[c].userCut, r.cut}) = Cut(c, n)
    <3>1. conn[c].userCut = UserCut(c, n - 1)
      BY <1>1, <1>9 DEF HandlerOf, Read
    <3> QED
      BY <1>9, <3>1, CutPass
  <2>2. r.verb = "PASS" => turn.event = "credential" /\ turn.marked = Marks({conn[c].userCut, r.cut})
    BY <1>9 DEF TurnOn, FtpTurn, Stores
  <2>3. r.verb # "PASS" => r.cut = Cut(c, n)
    BY <1>2, <1>9
  <2>4. r.verb \in {"BLANK", "USER", "EPSV", "PASV", "PORT", "QUIT"} => Untold(c, n)
    BY <1>9 DEF Untold
  <2>5. r.verb \in Stores => Stored(c, n) /\ turn.next = "storing"
    BY <1>9 DEF TurnOn, FtpTurn, Stored, Stores
  <2>6. r.verb = "TOOLONG" => turn.event = "sensor.input_rejected"
    BY <1>9 DEF TurnOn, FtpTurn, Stores
  <2>7. r.verb \notin {"BLANK", "TOOLONG", "PASS", "USER", "EPSV", "PASV", "PORT", "QUIT"} \cup Stores
          => turn.event = "legacy.command" /\ turn.marked = r.cut
    BY <1>9 DEF TurnOn, FtpTurn, Stores
  <2>8. r.verb \in {"BLANK", "USER", "EPSV", "PASV", "PORT", "QUIT"} \cup Stores => turn.event = None
    BY <1>9 DEF TurnOn, FtpTurn, Stores
  <2> QED
    BY <2>1, <2>2, <2>3, <2>4, <2>5, <2>6, <2>7, <2>8
<1>10. CASE Proto(c) = "web"
  <2>1. r.verb # "PASS" /\ r.cut = Cut(c, n) /\ r.verb \in WebReads
    BY <1>1, <1>2, <1>10 DEF Reads, WebReads
  <2>2. r.verb \in Uploads => Stored(c, n) /\ turn.next = "uploading" /\ turn.event = None
    BY <1>10 DEF TurnOn, WebTurn, Stored, Uploads
  <2>3. r.verb = "OTHER_METHOD" => Untold(c, n) /\ turn.event = None
    BY <1>10 DEF TurnOn, WebTurn, Untold
  <2>4. r.verb \notin Uploads \cup {"OTHER_METHOD"} => turn.event # None /\ turn.marked = r.cut
    BY <1>10, <2>1 DEF TurnOn, WebTurn, WebReads, Uploads
  <2> QED
    BY <2>1, <2>2, <2>3, <2>4
<1> QED
  BY <1>1, <1>3, <1>4, <1>5, <1>6, <1>7, <1>8, <1>9, <1>10 DEF Readers, Protocols

LEMMA TellingReadings ==
  ASSUME NEW s \in Seq(Tellings)
  PROVE  \A i \in DOMAIN s : s[i].reading \in Nat
<1>1. \A i \in DOMAIN s : s[i] \in Tellings
  OBVIOUS
<1> QED
  BY <1>1 DEF Tellings

LEMMA OrderedAppended ==
  ASSUME NEW s \in Seq(Tellings), NEW last \in Int, Ordered(s, last), NEW e \in Tellings
  PROVE  /\ e.reading = 0 /\ last >= 0 => Ordered(Append(s, e), last)
         /\ e.reading > last => Ordered(Append(s, e), e.reading)
         /\ \A n : Quoted(Append(s, e), n) <=> Quoted(s, n) \/ n = e.reading
<1>1. /\ DOMAIN s = 1..Len(s) /\ Len(s) \in Nat
      /\ DOMAIN Append(s, e) = 1..Len(s) + 1
      /\ \A i \in 1..Len(s) : Append(s, e)[i] = s[i] /\ s[i].reading \in Nat
      /\ Append(s, e)[Len(s) + 1] = e /\ e.reading \in Nat
  <2>1. e.reading \in Nat
    BY DEF Tellings
  <2>2. \A i \in 1..Len(s) : Append(s, e)[i] = s[i]
    OBVIOUS
  <2> QED
    BY <2>1, <2>2, TellingReadings
<1>2. /\ \A i \in 1..Len(s) + 1 : i \in 1..Len(s) \/ i = Len(s) + 1
      /\ Len(s) + 1 \in 1..Len(s) + 1 /\ 1..Len(s) \subseteq 1..Len(s) + 1
      /\ \A i \in 1..Len(s) : i < Len(s) + 1 /\ ~(Len(s) + 1 < i)
  BY <1>1
<1>3. /\ \A i \in 1..Len(s) : s[i].reading <= last
      /\ \A i, j \in 1..Len(s) :
           i < j /\ s[i].reading > 0 /\ s[j].reading > 0 => s[i].reading < s[j].reading
  BY <1>1 DEF Ordered
<1>4. ASSUME e.reading = 0, last >= 0
      PROVE  Ordered(Append(s, e), last)
  BY <1>1, <1>2, <1>3, <1>4 DEF Ordered
<1>5. ASSUME e.reading > last
      PROVE  Ordered(Append(s, e), e.reading)
  <2>1. \A i \in 1..Len(s) : s[i].reading < e.reading
    BY <1>1, <1>3, <1>5
  <2> QED
    BY <1>1, <1>2, <1>3, <2>1 DEF Ordered
<1>6. ASSUME NEW n
      PROVE  Quoted(Append(s, e), n) <=> Quoted(s, n) \/ n = e.reading
  BY <1>1, <1>2 DEF Quoted
<1> QED
  BY <1>4, <1>5, <1>6

LEMMA OrderedWeaker ==
  ASSUME NEW s \in Seq(Tellings), NEW last \in Int, NEW more \in Int, last <= more,
         Ordered(s, last)
  PROVE  Ordered(s, more)
<1>1. \A i \in DOMAIN s : s[i].reading \in Nat
  BY TellingReadings
<1> QED
  BY <1>1 DEF Ordered

LEMMA MarksAppended ==
  ASSUME NEW c, NEW s \in Seq(Tellings), MarksOK(c, s), NEW e \in Tellings,
         e.reading \in DOMAIN script[c].input =>
           \/ e.event \in {"sensor.input_rejected", "ftp.upload_rejected"}
           \/ e.marked = Cut(c, e.reading)
  PROVE  MarksOK(c, Append(s, e))
<1>1. /\ DOMAIN s = 1..Len(s) /\ Len(s) \in Nat
      /\ DOMAIN Append(s, e) = 1..Len(s) + 1
      /\ \A i \in 1..Len(s) : Append(s, e)[i] = s[i]
      /\ Append(s, e)[Len(s) + 1] = e
  OBVIOUS
<1>2. \A i \in 1..Len(s) + 1 : i \in 1..Len(s) \/ i = Len(s) + 1
  BY <1>1
<1> QED
  BY <1>1, <1>2 DEF MarksOK

(* What a step leaves of a connection it does not serve. *)
LEMMA OthersStay ==
  ASSUME ValuesOK, NEW c \in Conns, NEW d \in Conns \ {c},
         \/ Accepted(c) \/ Shifts(c) \/ Turned(c) \/ Put(c) \/ Take(c)
         \/ Reported(c) \/ Finish(c) \/ Release(c)
  PROVE  phase'[d] = phase[d] /\ conn'[d] = conn[d] /\ log'[d] = log[d]
<1>1. phase'[d] = phase[d]
  BY StepMoves DEF ValuesOK
<1>2. CASE Take(c)
  BY <1>1, <1>2, TakeEffect
<1>3. CASE Put(c)
  BY <1>1, <1>3, PutEffect
<1>4. CASE Accepted(c)
  BY <1>1, <1>4 DEF Accepted, ValuesOK
<1>5. CASE Turned(c)
  BY <1>1, <1>5 DEF Turned, Tells, ValuesOK
<1>6. CASE Reported(c)
  BY <1>1, <1>6 DEF Reported, Tells, ValuesOK
<1>7. CASE Finish(c)
  BY <1>1, <1>7 DEF Finish, ValuesOK
<1> QED
  BY <1>1, <1>2, <1>3, <1>4, <1>5, <1>6, <1>7 DEF Shifts, Release

LEMMA UserCutNext ==
  ASSUME ValuesOK, NEW c \in Texts, NEW n \in DOMAIN script[c].input
  PROVE  UserCut(c, n) = IF script[c].input[n].verb = "USER" THEN script[c].input[n].cut
                                                            ELSE UserCut(c, n - 1)
<1> DEFINE input == script[c].input
<1>1. n \in Nat \ {0} /\ input[n].cut \in BOOLEAN
  BY TextReading
<1>2. \A j \in 1..n : j = n \/ j \in 1..(n - 1)
  BY <1>1
<1>3. n \in 1..n /\ 1..(n - 1) \subseteq 1..n /\ n+1..n = {}
  BY <1>1
<1>4. \A j \in 1..(n - 1) : n \in j+1..n /\ j+1..n = (j+1..(n - 1)) \cup {n}
  BY <1>1
<1> HIDE DEF input
<1>5. CASE input[n].verb = "USER"
  <2>1. UserCut(c, n) <=> input[n].cut
    BY <1>2, <1>3, <1>4, <1>5 DEF UserCut, input
  <2> QED
    BY <1>1, <1>5, <2>1 DEF UserCut, input
<1>6. CASE input[n].verb # "USER"
  <2>1. UserCut(c, n) <=> UserCut(c, n - 1)
    BY <1>2, <1>3, <1>4, <1>6 DEF UserCut, input
  <2> QED
    BY <1>6, <2>1 DEF UserCut, input
<1> QED
  BY <1>5, <1>6

(* One reading of a text protocol is told, or needs no event, or is stored. *)
LEMMA ServeReading ==
  ASSUME ValuesOK, NEW c \in Texts, Serve(c),
         LogOf(c, log[c], Read(c), phase[c]), HandlerOf(c, conn[c], phase[c])
  PROVE  LogOf(c, log'[c], conn'[c].turns, phase'[c]) /\ HandlerOf(c, conn'[c], phase'[c])
<1> DEFINE n == Read(c) + 1
           input == script[c].input
           r == input[n]
           turn == TurnOn(c, r)
<1>1. /\ c \in Conns /\ Proto(c) \in Readers \ {"ssh"} /\ Len(input) \in Nat
      /\ DOMAIN input = 1..Len(input) /\ phase[c] = "serving" /\ Read(c) \in Nat
  <2>1. c \in Conns /\ Proto(c) \in Readers \ {"ssh"} /\ phase[c] = "serving"
    BY DEF Texts, Told, Bounded, Readers, Protocols, Serve
  <2>2. DOMAIN input = 1..Len(input) /\ Len(input) \in Nat
    BY <2>1, DecoyAssumption DEF ValuesOK, Conns
  <2> QED
    BY <2>1, <2>2, ConnFields DEF Read
<1>2. n \in DOMAIN input /\ n \in Nat \ {0}
  BY <1>1 DEF Serve, HasMore
<1>3. CanRead(Proto(c), n, r) /\ r.cut \in BOOLEAN
  BY <1>2, TextReading
<1>4. /\ After(c, r) \in Handlers /\ After(c, r).turns = n /\ After(c, r).cut = r.cut
      /\ After(c, r).userCut =
           IF r.verb = "USER" \/ (Proto(c) = "telnet" /\ Read(c) = 0) THEN r.cut
                                                                     ELSE conn[c].userCut
  BY <1>1, <1>3, AfterEffect
<1>5. Turns(c, r, After(c, r))
  BY <1>1 DEF Serve, Reading
<1>6. conn'[c] = After(c, r) /\ log'[c] =
        IF turn.event = None THEN log[c]
        ELSE Append(log[c], Event(turn.event, turn.marked, n))
  BY <1>1, <1>5 DEF Turns, Emitted, ValuesOK
<1>7. /\ turn.event \in {None} \cup TurnEvents /\ turn.marked \in BOOLEAN
      /\ turn.next \in {"serving", "storing", "uploading", "finishing"}
      /\ turn.next \in Pending => Proto(c) \in {"ftp", "web"} /\ Stored(c, n) /\ turn.event = None
  BY <1>1, <1>3, TurnKinds, Zenon DEF Pending, Stored
<1>8. /\ turn.event = None => Untold(c, n) \/ (Stored(c, n) /\ turn.next # "serving")
      /\ \/ turn.event = None \/ turn.event = "sensor.input_rejected"
         \/ turn.marked = Cut(c, n)
  BY <1>1, <1>2, TextTurn
<1>9. /\ phase'[c] \in {"serving", "storing", "uploading", "finishing"}
      /\ phase'[c] \in Pending => turn.next = phase'[c]
      /\ phase'[c] = "serving" => turn.next = "serving"
  <2>1. PICK lost \in BOOLEAN : phase' = [phase EXCEPT ![c] = Onward(c, turn, lost)]
    BY <1>5 DEF Turns
  <2>2. phase'[c] = Onward(c, turn, lost)
    BY <1>1, <2>1 DEF ValuesOK
  <2> HIDE DEF turn
  <2> QED
    BY <1>7, <2>2 DEF Onward, Pending
<1>10. Proto(c) = "telnet" /\ phase'[c] = "serving" => Read(c) = 0
  <2>1. Proto(c) = "telnet" /\ turn.next = "serving" => Read(c) = 0
    BY DEF TurnOn, TelnetTurn, Rejects, Ends, Turn
  <2> QED
    BY <1>9, <2>1
<1>11. log[c] \in Seq(Tellings) /\ Ordered(log[c], Read(c)) /\ MarksOK(c, log[c])
       /\ \A k \in 1..Read(c) \cap DOMAIN input : Quoted(log[c], k) \/ Untold(c, k)
  BY <1>1 DEF LogOf, Pending, ValuesOK
<1>12. \A k \in 1..n : k = n \/ k \in 1..Read(c)
  BY <1>1
<1> HIDE DEF turn, n, input, r
<1>13. n = Read(c) + 1
  BY DEF n
<1>14. LogOf(c, log'[c], n, phase'[c])
  <2>1. CASE turn.event = None
    <3>1. log'[c] = log[c]
      BY <1>6, <2>1
    <3>2. Ordered(log[c], IF phase'[c] \in Pending THEN n - 1 ELSE n)
      <4>1. n - 1 = Read(c) /\ Read(c) <= n /\ n \in Int /\ Read(c) \in Int
        BY <1>1, <1>13
      <4> QED
        BY <1>11, <4>1, OrderedWeaker
    <3>3. ASSUME NEW k \in 1..n, k \in DOMAIN input
          PROVE  Quoted(log[c], k) \/ Untold(c, k) \/ (k = n /\ Stored(c, k) /\ phase'[c] # "serving")
      <4>1. CASE k = n
        BY <1>8, <1>9, <2>1, <4>1
      <4>2. CASE k \in 1..Read(c)
        BY <1>11, <3>3, <4>2
      <4> QED
        BY <1>12, <4>1, <4>2
    <3> QED
      BY <1>11, <3>1, <3>2, <3>3 DEF LogOf, input
  <2>2. CASE turn.event # None
    <3> DEFINE e == Event(turn.event, turn.marked, n)
    <3>1. /\ e \in Tellings /\ e.reading = n /\ e.event = turn.event /\ e.marked = turn.marked
      <4>1. turn.event \in EventNames
        BY <1>7, <2>2 DEF EventNames
      <4> QED
        BY <1>2, <1>7, <4>1 DEF Event, Tellings
    <3>2. log'[c] = Append(log[c], e)
      BY <1>6, <2>2
    <3> HIDE DEF e
    <3>3. phase'[c] \notin Pending
      BY <1>7, <1>9, <2>2
    <3>4. /\ Ordered(Append(log[c], e), n)
          /\ \A k : Quoted(Append(log[c], e), k) <=> Quoted(log[c], k) \/ k = n
      <4>1. Read(c) \in Int /\ n > Read(c)
        BY <1>1, <1>13
      <4> QED
        BY <1>11, <3>1, <4>1, OrderedAppended
    <3>5. MarksOK(c, Append(log[c], e))
      BY <1>8, <1>11, <2>2, <3>1, MarksAppended
    <3>6. ASSUME NEW k \in 1..n, k \in DOMAIN input
          PROVE  Quoted(Append(log[c], e), k) \/ Untold(c, k)
      BY <1>11, <1>12, <3>4, <3>6
    <3> QED
      BY <3>2, <3>3, <3>4, <3>5, <3>6 DEF LogOf, input
  <2> QED
    BY <2>1, <2>2
<1>15. HandlerOf(c, conn'[c], phase'[c])
  <2>1. Proto(c) = "telnet" /\ phase'[c] = "serving" =>
          n <= 1 /\ (n = 1 /\ Len(input) >= 1 => conn'[c].userCut = input[1].cut)
    BY <1>1, <1>4, <1>6, <1>10, <1>13 DEF r
  <2>2. Proto(c) = "ftp" => conn'[c].userCut = UserCut(c, n)
    <3>1. Proto(c) = "ftp" => conn[c].userCut = UserCut(c, n - 1)
      BY <1>1, <1>13 DEF HandlerOf, Read
    <3>2. UserCut(c, n) = IF r.verb = "USER" THEN r.cut ELSE UserCut(c, n - 1)
      BY <1>2, UserCutNext DEF r, input
    <3> QED
      BY <1>4, <1>6, <3>1, <3>2
  <2>3. phase'[c] \in Pending => Stored(c, n) /\ conn'[c].cut = r.cut /\ Proto(c) # "telnet"
    BY <1>4, <1>6, <1>7, <1>9
  <2>4. conn'[c].turns = n /\ n <= Len(input) /\ phase'[c] # "waiting"
    BY <1>1, <1>2, <1>4, <1>6, <1>9
  <2> QED
    BY <1>2, <2>1, <2>2, <2>3, <2>4 DEF HandlerOf, r, input
<1> QED
  BY <1>4, <1>6, <1>14, <1>15

LEMMA HandlerMoves ==
  ASSUME NEW c, NEW h \in Handlers, NEW at, NEW to, HandlerOf(c, h, at),
         to \notin Pending \cup {"waiting"}, to = "serving" => at \in Pending \cup {"waiting"}
  PROVE  HandlerOf(c, h, to)
BY DEF HandlerOf, Pending, Handlers

LEMMA LogMoves ==
  ASSUME NEW c, NEW s, NEW n, NEW at, NEW to, LogOf(c, s, n, at),
         to # "serving", at \in Pending <=> to \in Pending
  PROVE  LogOf(c, s, n, to)
BY DEF LogOf

LEMMA LogAppended ==
  ASSUME ValuesOK, NEW c \in Texts, NEW s \in Seq(Tellings), NEW n \in Nat, NEW at, NEW to,
         LogOf(c, s, n, at), to # "serving", at \notin Pending, to \notin Pending,
         NEW e \in Tellings, e.reading = 0
  PROVE  LogOf(c, Append(s, e), n, to)
<1>1. DOMAIN script[c].input \subseteq Nat \ {0}
  BY DecoyAssumption, SMTT(30) DEF ValuesOK, Texts, Conns
<1>2. /\ Ordered(Append(s, e), n)
      /\ \A k : Quoted(s, k) => Quoted(Append(s, e), k)
  <2>1. Ordered(s, n) /\ n \in Int /\ n >= 0
    BY DEF LogOf
  <2> QED
    BY <2>1, OrderedAppended
<1>3. MarksOK(c, Append(s, e))
  BY <1>1, MarksAppended DEF LogOf
<1> QED
  BY <1>2, <1>3 DEF LogOf

(* The end of the input, which Telnet takes for an empty line. *)
LEMMA CloseReading ==
  ASSUME ValuesOK, NEW c \in Texts, PeerCloses(c),
         LogOf(c, log[c], Read(c), phase[c]), HandlerOf(c, conn[c], phase[c])
  PROVE  LogOf(c, log'[c], conn'[c].turns, phase'[c]) /\ HandlerOf(c, conn'[c], phase'[c])
<1>1. /\ c \in Conns /\ Proto(c) \in Readers \ {"ssh"} /\ phase[c] = "serving" /\ ~HasMore(c)
      /\ conn[c] \in Handlers /\ Read(c) \in Nat /\ log[c] \in Seq(Tellings)
  <2>1. c \in Conns /\ Proto(c) \in Readers \ {"ssh"} /\ phase[c] = "serving" /\ ~HasMore(c)
    BY DEF Texts, Told, Bounded, Readers, Protocols, PeerCloses
  <2> QED
    BY <2>1, ConnFields DEF Read, ValuesOK
<1>2. CASE Proto(c) # "telnet"
  <2>1. phase'[c] = "finishing" /\ conn'[c] = conn[c] /\ log'[c] = log[c]
    BY <1>1, <1>2 DEF PeerCloses, ValuesOK
  <2>2. LogOf(c, log[c], Read(c), "finishing") /\ HandlerOf(c, conn[c], "finishing")
    BY <1>1, LogMoves, HandlerMoves, Zenon DEF Pending
  <2> QED
    BY <2>1, <2>2 DEF Read
<1>3. CASE Proto(c) = "telnet"
  <2> DEFINE n == Read(c) + 1
             r == [verb |-> "BLANK", cut |-> FALSE]
             turn == TurnOn(c, r)
             input == script[c].input
  <2>1. DOMAIN input = 1..Len(input) /\ Len(input) \in Nat
    BY <1>1, DecoyAssumption DEF ValuesOK, Conns
  <2>2. CanRead(Proto(c), n, r)
    BY <1>3 DEF CanRead, Reads, LegacyReads
  <2>3. After(c, r) \in Handlers /\ After(c, r).turns = n
    BY <1>1, <1>3, <2>2, AfterEffect
  <2>4. Turns(c, r, After(c, r))
    BY <1>3 DEF PeerCloses
  <2>5. conn'[c] = After(c, r) /\ log'[c] =
          IF turn.event = None THEN log[c]
          ELSE Append(log[c], Event(turn.event, turn.marked, n))
    BY <1>1, <2>4 DEF Turns, Emitted, ValuesOK
  <2>6. /\ turn.event \in {None} \cup TurnEvents /\ turn.marked \in BOOLEAN
        /\ turn.next \in {"serving", "finishing"}
        /\ turn.next = "serving" => Read(c) = 0
    BY <1>1, <1>3, MarksBoolean DEF TurnOn, TelnetTurn, Quiet, Goes, Ends, Rejects, Turn, TurnEvents
  <2>7. phase'[c] \in {"serving", "finishing"} /\ (phase'[c] = "serving" => Read(c) = 0)
    <3>1. PICK lost \in BOOLEAN : phase' = [phase EXCEPT ![c] = Onward(c, turn, lost)]
      BY <2>4 DEF Turns
    <3>2. phase'[c] = Onward(c, turn, lost)
      BY <1>1, <3>1 DEF ValuesOK
    <3> HIDE DEF turn
    <3> QED
      BY <2>6, <3>2 DEF Onward
  <2>8. Len(input) <= Read(c) /\ n \notin DOMAIN input
    BY <1>1, <2>1 DEF HasMore
  <2>9. /\ Ordered(log[c], Read(c)) /\ MarksOK(c, log[c])
        /\ \A k \in 1..Read(c) \cap DOMAIN input : Quoted(log[c], k) \/ Untold(c, k)
    BY <1>1 DEF LogOf, Pending
  <2> HIDE DEF turn, n, r, input
  <2>10. n = Read(c) + 1 /\ n \in Nat
    BY <1>1 DEF n
  <2>11. LogOf(c, log'[c], n, phase'[c])
    <3>1. \A k \in 1..n \cap DOMAIN input : Quoted(log[c], k) \/ Untold(c, k)
      <4>1. \A k \in 1..n : k = n \/ k \in 1..Read(c)
        BY <1>1, <2>10
      <4> QED
        BY <2>8, <2>9, <4>1
    <3>2. CASE turn.event = None
      <4>1. Ordered(log[c], n)
        <5>1. Read(c) \in Int /\ n \in Int /\ Read(c) <= n
          BY <1>1, <2>10
        <5> QED
          BY <1>1, <2>9, <5>1, OrderedWeaker
      <4> QED
        BY <2>5, <2>7, <2>9, <3>1, <3>2, <4>1 DEF LogOf, Pending, input
    <3>3. CASE turn.event # None
      <4> DEFINE e == Event(turn.event, turn.marked, n)
      <4>1. e \in Tellings /\ e.reading = n
        <5>1. turn.event \in EventNames
          BY <2>6, <3>3 DEF EventNames
        <5> QED
          BY <2>6, <2>10, <5>1 DEF Event, Tellings
      <4>2. log'[c] = Append(log[c], e)
        BY <2>5, <3>3
      <4> HIDE DEF e
      <4>3. Ordered(Append(log[c], e), n) /\ \A k : Quoted(log[c], k) => Quoted(Append(log[c], e), k)
        <5>1. Read(c) \in Int /\ n > Read(c)
          BY <1>1, <2>10
        <5> QED
          BY <1>1, <2>9, <4>1, <5>1, OrderedAppended
      <4>4. MarksOK(c, Append(log[c], e))
        BY <1>1, <2>8, <2>9, <4>1, MarksAppended DEF input
      <4> QED
        BY <2>7, <3>1, <4>2, <4>3, <4>4 DEF LogOf, Pending, input
    <3> QED
      BY <3>2, <3>3
  <2>12. HandlerOf(c, conn'[c], phase'[c])
    <3>1. conn'[c].turns = n
      BY <2>3, <2>5
    <3> QED
      BY <1>1, <1>3, <2>1, <2>7, <2>8, <2>10, <3>1 DEF HandlerOf, Pending, input
  <2> QED
    BY <2>3, <2>5, <2>11, <2>12
<1> QED
  BY <1>2, <1>3

(* What any step makes of the readings of the connection it serves. *)
LEMMA ServedReading ==
  ASSUME ValuesOK, NEW c \in Texts,
         ProcessRequest(c) \/ Refuse(c) \/ PeerCloses(c) \/ FallSilent(c) \/ Handle(c),
         LogOf(c, log[c], Read(c), phase[c]), HandlerOf(c, conn[c], phase[c])
  PROVE  LogOf(c, log'[c], conn'[c].turns, phase'[c]) /\ HandlerOf(c, conn'[c], phase'[c])
<1>1. /\ c \in Conns /\ conn[c] \in Handlers /\ Read(c) \in Nat /\ log[c] \in Seq(Tellings)
      /\ Proto(c) # "ftp_data" /\ DOMAIN script[c].input \subseteq Nat \ {0}
  <2>1. c \in Conns /\ Proto(c) # "ftp_data"
    BY DEF Texts, Told, Bounded
  <2> QED
    BY <2>1, ConnFields, DecoyAssumption DEF Read, ValuesOK, Conns
<1>2. ASSUME NEW to, to \notin Pending \cup {"waiting", "serving"}, phase'[c] = to,
             phase[c] \notin Pending, conn'[c] = conn[c],
             \/ log'[c] = log[c]
             \/ \E e \in Tellings : e.reading = 0 /\ log'[c] = Append(log[c], e)
      PROVE  LogOf(c, log'[c], conn'[c].turns, phase'[c]) /\ HandlerOf(c, conn'[c], phase'[c])
  <2>1. HandlerOf(c, conn[c], to)
    BY <1>1, <1>2, HandlerMoves, Zenon
  <2>2. CASE log'[c] = log[c]
    <3>1. LogOf(c, log[c], Read(c), to)
      BY <1>2, LogMoves, Zenon
    <3> QED
      BY <1>2, <2>1, <2>2, <3>1 DEF Read
  <2>3. ASSUME NEW e \in Tellings, e.reading = 0, log'[c] = Append(log[c], e)
        PROVE  LogOf(c, log'[c], Read(c), to)
    BY <1>1, <1>2, <2>3, LogAppended, Zenon
  <2> QED
    BY <1>2, <2>1, <2>2, <2>3 DEF Read
<1>3. CASE ProcessRequest(c)
  <2>1. phase[c] = "waiting" /\ Accepted(c)
    BY <1>1, <1>3, AcceptEffect DEF ProcessRequest
  <2>2. PICK to \in {"serving", "finishing"} : phase' = [phase EXCEPT ![c] = to]
    BY <2>1 DEF Accepted, Moves
  <2>3. /\ phase'[c] = to /\ conn'[c] = conn[c] /\ Read(c) = 0
        /\ log'[c] = <<Event("connection", FALSE, 0)>> \/ log'[c] = log[c]
    BY <1>1, <2>1, <2>2 DEF Accepted, ValuesOK, HandlerOf, Read
  <2>4. HandlerOf(c, conn[c], to)
    BY <1>1, <2>1, HandlerMoves DEF Pending
  <2>5. LogOf(c, log'[c], 0, to)
    <3>1. CASE log'[c] = log[c]
      BY <2>1, <2>3, <3>1 DEF LogOf, Pending
    <3>2. CASE log'[c] = <<Event("connection", FALSE, 0)>>
      <4> DEFINE e == Event("connection", FALSE, 0)
      <4>1. e.reading = 0
        BY DEF Event
      <4> HIDE DEF e
      <4>2. DOMAIN <<e>> = {1} /\ <<e>>[1] = e
        OBVIOUS
      <4>3. Ordered(<<e>>, 0)
        BY <4>1, <4>2 DEF Ordered
      <4>4. MarksOK(c, <<e>>)
        BY <1>1, <4>1, <4>2 DEF MarksOK
      <4> QED
        BY <3>2, <4>3, <4>4 DEF LogOf, Pending, e
    <3> QED
      BY <2>3, <3>1, <3>2
  <2> QED
    BY <2>3, <2>4, <2>5 DEF Read
<1>4. CASE Refuse(c)
  BY <1>1, <1>2, <1>4 DEF Refuse, ValuesOK, Pending
<1>5. CASE TimeOut(c) \/ FallSilent(c)
  <2>1. /\ phase[c] \in {"serving", "silent"} /\ phase'[c] \in {"silent", "finishing"}
        /\ conn'[c] = conn[c] /\ log'[c] = log[c]
    BY <1>1, <1>5 DEF TimeOut, FallSilent, ValuesOK
  <2> QED
    BY <1>1, <1>2, <2>1 DEF Pending
<1>6. CASE Release(c)
  BY <1>1, <1>2, <1>6 DEF Release, ValuesOK, Pending
<1>7. CASE Finish(c)
  <2>1. phase'[c] = "closing" /\ phase[c] = "finishing" /\ conn'[c] = conn[c]
    BY <1>1, <1>7 DEF Finish, ValuesOK
  <2> DEFINE e == Event("connection.closed", FALSE, 0)
  <2>2. e \in Tellings /\ e.reading = 0
    BY DEF Event, Tellings, EventNames
  <2>3. log'[c] = log[c] \/ log'[c] = Append(log[c], e)
    BY <1>1, <1>7 DEF Finish, ValuesOK
  <2> HIDE DEF e
  <2> QED
    BY <1>2, <2>1, <2>2, <2>3 DEF Pending
<1>8. CASE Take(c)
  <2>1. /\ phase[c] = "storing" /\ phase'[c] = "uploading" /\ log'[c] = log[c]
        /\ conn'[c].turns = Read(c) /\ conn'[c].cut = conn[c].cut
        /\ conn'[c].userCut = conn[c].userCut
    BY <1>1, <1>8, TakeEffect DEF ValuesOK
  <2>2. LogOf(c, log[c], Read(c), "uploading")
    BY <2>1, LogMoves DEF Pending
  <2>3. HandlerOf(c, conn'[c], "uploading")
    BY <2>1 DEF HandlerOf, Pending, Read
  <2> QED
    BY <2>1, <2>2, <2>3
<1>9. CASE TakeTimesOut(c) \/ Quarantine(c)
  <2>1. Reported(c)
    BY <1>1, <1>9, SettledEffect
  <2>2. PICK to \in {"serving", "finishing"} : phase' = [phase EXCEPT ![c] = to]
    BY <2>1 DEF Reported, Moves
  <2>3. PICK e \in Tellings :
          /\ e.reading = Read(c) /\ log' = [log EXCEPT ![c] = Append(log[c], e)]
          /\ e.event = "ftp.upload_rejected" \/ e.marked = conn[c].cut
    BY <2>1 DEF Reported, Tells
  <2>4. /\ phase[c] \in Pending /\ phase'[c] = to /\ conn'[c] = conn[c]
        /\ log'[c] = Append(log[c], e)
    BY <1>1, <2>1, <2>2, <2>3 DEF Reported, ValuesOK, Pending
  <2> DEFINE n == Read(c)
  <2>5. /\ n \in DOMAIN script[c].input /\ Stored(c, n) /\ Proto(c) # "telnet"
        /\ conn[c].cut = script[c].input[n].cut
    BY <2>4 DEF HandlerOf, Read
  <2>6. conn[c].cut = Cut(c, n)
    BY <2>5, CutPlain DEF Stored, Stores, Uploads
  <2>7. Ordered(Append(log[c], e), n) /\ \A k : Quoted(Append(log[c], e), k) <=> Quoted(log[c], k) \/ k = n
    <3>1. Ordered(log[c], n - 1) /\ n - 1 \in Int /\ n > n - 1
      BY <1>1, <2>4 DEF LogOf
    <3> QED
      BY <1>1, <2>3, <3>1, OrderedAppended
  <2>8. MarksOK(c, Append(log[c], e))
    BY <1>1, <2>3, <2>6, MarksAppended DEF LogOf
  <2>9. LogOf(c, Append(log[c], e), n, to)
    BY <2>7, <2>8 DEF LogOf, Pending
  <2>10. HandlerOf(c, conn[c], to)
    BY <1>1, <2>4, HandlerMoves DEF Pending
  <2> QED
    BY <2>4, <2>9, <2>10 DEF Read
<1>10. CASE Serve(c)
  BY <1>10, ServeReading
<1>11. CASE PeerCloses(c)
  BY <1>11, CloseReading
<1>12. CASE Put(c)
  BY <1>1, <1>12 DEF Put
<1>13. CASE QuarantineRaises(c)
  <2>1. /\ phase[c] = "uploading" /\ phase'[c] = "finishing" /\ conn'[c] = conn[c]
        /\ log'[c] = log[c]
    BY <1>1, <1>13 DEF QuarantineRaises, ValuesOK
  <2>2. HandlerOf(c, conn[c], "finishing")
    BY <1>1, HandlerMoves, Zenon DEF Pending
  <2>3. Ordered(log[c], Read(c))
    <3>1. Ordered(log[c], Read(c) - 1)
      BY <2>1 DEF LogOf, Pending
    <3>2. Read(c) - 1 \in Int /\ Read(c) \in Int /\ Read(c) - 1 <= Read(c)
      BY <1>1
    <3> QED
      BY <1>1, <3>1, <3>2, OrderedWeaker
  <2>4. LogOf(c, log[c], Read(c), "finishing")
    BY <2>1, <2>3 DEF LogOf, Pending
  <2> QED
    BY <2>1, <2>2, <2>4 DEF Read
<1> QED
  BY <1>3, <1>4, <1>5, <1>6, <1>7, <1>8, <1>9, <1>10, <1>11, <1>12, <1>13 DEF Handle

LEMMA ReadingsInit ==
  ASSUME Init
  PROVE  ReadingsOK
<1> SUFFICES ASSUME NEW c \in Texts
             PROVE  LogOf(c, log[c], Read(c), phase[c]) /\ HandlerOf(c, conn[c], phase[c])
  BY DEF ReadingsOK
<1>1. /\ log[c] = <<>> /\ phase[c] = "waiting" /\ conn[c].turns = 0 /\ conn[c].userCut = FALSE
      /\ Len(script[c].input) \in Nat /\ Read(c) = 0
  BY DecoyAssumption DEF Init, Texts, Fresh, Conns, Read
<1>2. LogOf(c, <<>>, 0, "waiting")
  BY DEF LogOf, Ordered, MarksOK, Pending
<1>3. HandlerOf(c, conn[c], "waiting")
  <2>1. UserCut(c, 0) = FALSE
    BY DEF UserCut
  <2>2. conn[c].userCut = UserCut(c, conn[c].turns)
    BY <1>1, <2>1, Zenon
  <2> QED
    BY <1>1, <2>2 DEF HandlerOf, Pending
<1> QED
  BY <1>1, <1>2, <1>3

LEMMA ReadingsStep ==
  ASSUME ValuesOK, ReadingsOK, [Next]_vars
  PROVE  ReadingsOK'
<1>1. ASSUME script' = script,
             \A c \in Texts : /\ LogOf(c, log'[c], conn'[c].turns, phase'[c])
                              /\ HandlerOf(c, conn'[c], phase'[c])
      PROVE  ReadingsOK'
  <2>1. Texts' = Texts
    BY <1>1 DEF Texts, Conns, Proto
  <2> SUFFICES ASSUME NEW c \in Texts
               PROVE  LogOf(c, log[c], Read(c), phase[c])' /\ HandlerOf(c, conn[c], phase[c])'
    BY <2>1 DEF ReadingsOK
  <2>2. ASSUME NEW n
        PROVE  /\ (Untold(c, n) <=> Untold(c, n)') /\ (Stored(c, n) <=> Stored(c, n)')
               /\ UserCut(c, n)' = UserCut(c, n)
    BY <1>1 DEF Untold, Stored, UserCut, Proto
  <2>3. ASSUME NEW n
        PROVE  Cut(c, n)' = Cut(c, n)
    BY <1>1 DEF Cut, Quotes, Proto
  <2>4. MarksOK(c, log[c])'
    <3>1. MarksOK(c, log'[c])
      BY <1>1 DEF LogOf
    <3> QED
      BY <1>1, <2>3, <3>1 DEF MarksOK
  <2>5. LogOf(c, log[c], Read(c), phase[c])'
    BY <1>1, <2>2, <2>4 DEF LogOf, Read
  <2>6. HandlerOf(c, conn[c], phase[c])'
    BY <1>1, <2>2 DEF HandlerOf, Proto
  <2> QED
    BY <2>5, <2>6
<1>2. CASE UNCHANGED vars
  BY <1>1, <1>2 DEF ReadingsOK, Read, vars
<1>3. CASE Next
  <2>1. PICK c \in Conns : ProcessRequest(c) \/ Refuse(c) \/ PeerCloses(c) \/ FallSilent(c) \/ Handle(c)
    BY <1>3 DEF Next
  <2>2. \/ Accepted(c) \/ Shifts(c) \/ Turned(c) \/ Put(c) \/ Take(c)
        \/ Reported(c) \/ Finish(c) \/ Release(c)
    BY <2>1, AcceptEffect, ServeEffect, SettledEffect, ShiftEffect DEF Handle
  <2>3. script' = script
    BY <2>2, StepMoves
  <2>4. ASSUME NEW d \in Texts
        PROVE  /\ LogOf(d, log'[d], conn'[d].turns, phase'[d])
               /\ HandlerOf(d, conn'[d], phase'[d])
    <3>1. LogOf(d, log[d], Read(d), phase[d]) /\ HandlerOf(d, conn[d], phase[d])
      BY DEF ReadingsOK
    <3>2. CASE d = c
      BY <2>1, <3>1, <3>2, ServedReading
    <3>3. CASE d # c
      <4>1. d \in Conns \ {c}
        BY <3>3 DEF Texts
      <4>2. phase'[d] = phase[d] /\ conn'[d] = conn[d] /\ log'[d] = log[d]
        BY <2>2, <4>1, OthersStay
      <4> QED
        BY <3>1, <4>2 DEF Read
    <3> QED
      BY <3>2, <3>3
  <2> QED
    BY <1>1, <2>3, <2>4
<1> QED
  BY <1>2, <1>3

(* Every reading of a text protocol is told once, in the order read, and its
   event is marked exactly when a text it quotes was cut by its handler; only
   an upload whose handler is left by an exception goes untold (the handlers'
   loops and emit).  The name and type of an upload, which the client and the
   quarantine shorten without a mark, are not among those texts. *)
THEOREM ReadingsAreTold == Spec => []ReadingsTold
<1>1. Init => ValuesOK /\ ReadingsOK
  BY InitValues, ReadingsInit
<1>2. ServerInv /\ ReadingsOK /\ [Next]_vars => ReadingsOK'
  BY ReadingsStep DEF ServerInv
<1>3. ServerInv /\ ReadingsOK => ReadingsTold
  <2> SUFFICES ASSUME ValuesOK, ReadingsOK, NEW c \in Texts
               PROVE  LET events == {i \in DOMAIN log[c] : log[c][i].reading \in DOMAIN script[c].input}
                      IN /\ \A i, j \in events : i < j => log[c][i].reading < log[c][j].reading
                         /\ \A n \in 1..Read(c) \cap DOMAIN script[c].input :
                              \/ \E i \in events : log[c][i].reading = n
                              \/ Untold(c, n)
                              \/ n = Read(c) /\ script[c].input[n].verb \in Stores \cup Uploads
                         /\ \A i \in events :
                              \/ log[c][i].event \in {"sensor.input_rejected", "ftp.upload_rejected"}
                              \/ log[c][i].marked =
                                   \E j \in Quotes(c, log[c][i].reading) : script[c].input[j].cut
    BY DEF ReadingsTold, Texts, ServerInv
  <2>1. LogOf(c, log[c], Read(c), phase[c])
    BY DEF ReadingsOK
  <2>2. DOMAIN script[c].input \subseteq Nat \ {0}
    BY DecoyAssumption DEF ValuesOK, Texts, Conns
  <2> DEFINE events == {i \in DOMAIN log[c] : log[c][i].reading \in DOMAIN script[c].input}
  <2>3. \A i, j \in events : i < j => log[c][i].reading < log[c][j].reading
    BY <2>1, <2>2 DEF LogOf, Ordered
  <2>4. \A n \in 1..Read(c) \cap DOMAIN script[c].input :
          \/ \E i \in events : log[c][i].reading = n
          \/ Untold(c, n)
          \/ n = Read(c) /\ script[c].input[n].verb \in Stores \cup Uploads
    BY <2>1 DEF LogOf, Quoted, Stored
  <2>5. \A i \in events :
          \/ log[c][i].event \in {"sensor.input_rejected", "ftp.upload_rejected"}
          \/ log[c][i].marked = \E j \in Quotes(c, log[c][i].reading) : script[c].input[j].cut
    BY <2>1 DEF LogOf, MarksOK, Cut
  <2> QED
    BY <2>3, <2>4, <2>5
<1> QED
  BY <1>1, <1>2, <1>3, ServerInvHolds, PTL DEF Spec
=============================================================================
