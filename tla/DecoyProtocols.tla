--------------------------- MODULE DecoyProtocols ---------------------------
(***************************************************************************)
(* What the handlers of src/aegis_nexus/sensors make of one thing read from *)
(* a peer.  A reading is [verb, cut]: the command it carries, and whether a *)
(* text that its handler captures exceeds the bound of its field.           *)
(* "TOOLONG" stands for a line beyond the reader's limit, "BAD" for bytes   *)
(* the protocol's parser refuses, "BLANK" for an empty line.  A turn says   *)
(* which event is emitted (None: no event), whether it is marked as         *)
(* truncated, and what the handler does next.                               *)
(***************************************************************************)
EXTENDS Naturals, Sequences

CONSTANTS None, MaxCommand    \* MAX_COMMAND of the SSH decoy, in blocks of text

Protocols == {"generic", "smtp", "redis", "mysql", "smb", "ssh", "telnet",
              "ftp", "ftp_data", "web"}

(* What a reader can return, apart from the end of the input: the verbs the  *)
(* handlers tell apart, and what its parser raises.                          *)
SmtpReads  == {"EHLO", "HELO", "AUTH", "MAIL", "RCPT", "DATA", "QUIT", "VRFY", "BLANK", "TOOLONG"}
RedisReads == {"AUTH", "GET", "SET", "PING", "QUIT", "BAD"}
MysqlReads == {"LOGIN", "BAD"}
SmbReads   == {"NEGOTIATE", "UNKNOWN_DIALECTS", "SESSION_SETUP", "ECHO", "BAD"}
LegacyReads == {"USER", "PASS", "EPSV", "PASV", "PORT", "STOR", "STOR_RENAMED", "STOR_ODD",
                "QUIT", "SITE", "root", "toor", "BLANK", "TOOLONG"}
WebReads   == {"INDEX", "NOT_FOUND", "LOGIN", "INTERNAL_DB", "VIEWER", "NO_FILE",
               "EMPTY_FILE", "LARGE_FILE", "UPLOAD", "UPLOAD_RENAMED", "UPLOAD_ODD",
               "OTHER_METHOD"}

(* A file's name may be one the client and the quarantine shorten behind the *)
(* handler's back (RENAMED: too long a name or type on the web, a name with  *)
(* directories on both), or one no HTTP header can carry (ODD: a character   *)
(* beyond Latin-1, a bare CR).                                               *)
Stores  == {"STOR", "STOR_RENAMED", "STOR_ODD"}
Uploads == {"UPLOAD", "UPLOAD_RENAMED", "UPLOAD_ODD"}
OddNames == {"STOR_ODD", "UPLOAD_ODD"}

Reads(p) ==
  CASE p = "smtp" -> SmtpReads
    [] p = "redis" -> RedisReads
    [] p = "mysql" -> MysqlReads
    [] p = "smb" -> SmbReads
    [] p \in {"ftp", "telnet"} -> LegacyReads
    [] p = "web" -> WebReads
    [] OTHER -> {"PROBE", "LOGIN"}

(* Readings of which no text is captured, so none can be cut.                *)
Bare(p) ==
  CASE p = "smtp" -> {"DATA", "QUIT", "BLANK", "TOOLONG"}
    [] p \in {"smb", "generic"} -> Reads(p)
    [] OTHER -> {"BLANK", "TOOLONG"}

CanRead(p, i, r) ==
  CASE p = "ftp_data" -> r = "part"
    [] p = "ssh" /\ i > 1 -> r \in Seq({"text", "exit", "end"}) /\ r # <<>>
    [] OTHER -> /\ r.verb \in Reads(p) /\ r.cut \in BOOLEAN
                /\ r.verb \in Bare(p) => ~r.cut

(* An event is marked when a text it captures was cut.                       *)
Marks(cuts) == \E cut \in cuts : cut

(* The events of a turn.                                                     *)
TurnEvents ==
  {"sensor.input_rejected", "tcp.banner_probe", "smtp.command", "smtp.auth_attempt",
   "smtp.envelope", "redis.auth_attempt", "redis.command", "credential", "smb.negotiate",
   "smb.auth_attempt", "smb.command", "legacy.command", "web.request", "web.payload",
   "web.upload_rejected", "command"}

ASSUME NoneAssumption == None \notin TurnEvents

Turn(event, marked, next) == [event |-> event, marked |-> marked, next |-> next]

Goes(event, marked) == Turn(event, marked, "serving")
Ends(event, marked) == Turn(event, marked, "finishing")
Quiet   == Goes(None, FALSE)     \* answered, nothing emitted
Leaves  == Ends(None, FALSE)     \* the loop is left, nothing emitted
Rejects == Ends("sensor.input_rejected", FALSE)

GenericTurn(r) == Ends("tcp.banner_probe", FALSE)

SmtpTurn(r) ==
  CASE r.verb = "BLANK"            -> Leaves
    [] r.verb = "TOOLONG"          -> Rejects
    [] r.verb = "QUIT"             -> Ends("smtp.command", FALSE)
    [] r.verb = "DATA"             -> Goes("smtp.command", FALSE)
    [] r.verb = "AUTH"             -> Goes("smtp.auth_attempt", r.cut)
    [] r.verb \in {"MAIL", "RCPT"} -> Goes("smtp.envelope", r.cut)
    [] OTHER                       -> Goes("smtp.command", r.cut)

RedisTurn(r) ==
  CASE r.verb = "BAD"  -> Rejects
    [] r.verb = "AUTH" -> Goes("redis.auth_attempt", r.cut)
    [] r.verb = "QUIT" -> Ends("redis.command", r.cut)
    [] OTHER           -> Goes("redis.command", r.cut)

MysqlTurn(r) ==
  IF r.verb = "BAD" THEN Rejects ELSE Ends("credential", r.cut)

SmbTurn(r) ==
  CASE r.verb = "BAD"               -> Rejects
    [] r.verb = "NEGOTIATE"         -> Goes("smb.negotiate", FALSE)
    [] r.verb = "UNKNOWN_DIALECTS"  -> Ends("smb.negotiate", FALSE)
    [] r.verb = "SESSION_SETUP"     -> Ends("smb.auth_attempt", FALSE)
    [] OTHER                        -> Ends("smb.command", FALSE)

(* Telnet: the first line is held as the user name, the second completes the *)
(* credential; the marks of both go into its event.                          *)
TelnetTurn(r, turns, userCut) ==
  CASE r.verb = "TOOLONG" -> Rejects
    [] r.verb # "TOOLONG" /\ turns = 0 -> Quiet
    [] OTHER              -> Ends("credential", Marks({userCut, r.cut}))

(* Variants with a suffix hold a plausible defect each; no definition uses them. *)
FtpTurn_DropsMarks(r, userCut) ==   \* PASS starts a fresh audit, without the user name's marks
  CASE r.verb = "BLANK"   -> Leaves
    [] r.verb = "TOOLONG" -> Rejects
    [] r.verb = "PASS"    -> Goes("credential", r.cut)
    [] r.verb \in Stores  -> Turn(None, FALSE, "storing")
    [] r.verb \in {"USER", "EPSV", "PASV", "PORT"} -> Quiet
    [] r.verb = "QUIT"    -> Leaves
    [] OTHER              -> Goes("legacy.command", r.cut)

(* FTP: USER only remembers the name and its marks; PASS emits both.         *)
FtpTurn(r, userCut) ==
  CASE r.verb = "BLANK"   -> Leaves
    [] r.verb = "TOOLONG" -> Rejects
    [] r.verb = "PASS"    -> Goes("credential", Marks({userCut, r.cut}))
    [] r.verb \in Stores  -> Turn(None, FALSE, "storing")
    [] r.verb \in {"USER", "EPSV", "PASV", "PORT"} -> Quiet
    [] r.verb = "QUIT"    -> Leaves
    [] OTHER              -> Goes("legacy.command", r.cut)

(* One HTTP request.  Only 404 has an error handler of its own, so a method  *)
(* a route does not serve and a body over MAX_CONTENT_LENGTH are answered    *)
(* by Flask without an event.  The cut of an upload that is stored is that   *)
(* of the request's own texts: its file's name and type go to the client     *)
(* unbounded, and what is lost of them there is not noted.                   *)
WebTurn(r) ==
  CASE r.verb \in {"INDEX", "NOT_FOUND"}     -> Ends("web.request", r.cut)
    [] r.verb = "LOGIN"                      -> Ends("credential", r.cut)
    [] r.verb \in {"INTERNAL_DB", "VIEWER"}  -> Ends("web.payload", r.cut)
    [] r.verb \in {"NO_FILE", "EMPTY_FILE", "LARGE_FILE"} ->
                                                Ends("web.upload_rejected", r.cut)
    [] r.verb \in Uploads                    -> Turn(None, r.cut, "uploading")
    [] OTHER                                 -> Leaves

-----------------------------------------------------------------------------
(* SSH: a reading is a chunk, a sequence of "text", "exit" and "end"; "end"  *)
(* is a CR or LF.                                                            *)
EndsAt(chunk) == {i \in 1..Len(chunk) : chunk[i] = "end"}

LineEnd(chunk) == CHOOSE i \in EndsAt(chunk) : \A j \in EndsAt(chunk) : i <= j

(* _read_command: text is collected up to the first line end, whatever       *)
(* follows it in the chunk is left behind.                                   *)
LineIn(held, chunk) ==
  IF EndsAt(chunk) = {} THEN held \o chunk
  ELSE held \o SubSeq(chunk, 1, LineEnd(chunk) - 1)

SshTurn(held, chunk) ==
  LET line == LineIn(held, chunk)
      cut  == Len(line) > MaxCommand
  IN CASE EndsAt(chunk) = {} -> Quiet
       [] EndsAt(chunk) # {} /\ line = <<>> -> Quiet
       [] EndsAt(chunk) # {} /\ line = <<"exit">> -> Ends("command", cut)
       [] OTHER -> Goes("command", cut)

(* check_auth_password: any password is accepted.                            *)
SshLogin(r) == Goes("credential", r.cut)
=============================================================================
