------------------------------ MODULE MCDecoys ------------------------------
(* Small instances of DecoyServer: peers of every protocol, a few at a time. *)
EXTENDS DecoyServer, TLC

Says(verb) == [verb |-> verb, cut |-> FALSE]
Long(verb) == [verb |-> verb, cut |-> TRUE]
Peer(proto, source, input) == [proto |-> proto, source |-> source, input |-> input]

Verbs(s) == [i \in DOMAIN s |-> Says(s[i])]

Turnaround ==
  [p \in Protocols \ {"ssh"} |->
     CASE p \in {"generic", "mysql", "web"} -> 1
       [] p = "telnet" -> 2
       [] p = "smb"    -> 4
       [] p = "ftp"    -> 6
       [] OTHER        -> 3]

(* One peer of each dialogue, with what ends it early and what is cut.       *)
Dialogues ==
  {Peer("generic", 1, Verbs(<<"PROBE">>)), Peer("generic", 1, <<>>),
   Peer("smtp", 1, <<Long("EHLO"), Says("AUTH"), Long("MAIL"), Says("DATA")>>),
   Peer("smtp", 1, Verbs(<<"DATA", "TOOLONG">>)), Peer("smtp", 1, Verbs(<<"VRFY", "BLANK">>)),
   Peer("smtp", 1, Verbs(<<"QUIT">>)),
   Peer("redis", 1, <<Says("AUTH"), Long("GET"), Says("PING"), Says("SET")>>),
   Peer("redis", 1, Verbs(<<"PING", "BAD">>)), Peer("redis", 1, Verbs(<<"QUIT", "PING">>)),
   Peer("mysql", 1, <<Long("LOGIN")>>), Peer("mysql", 1, Verbs(<<"BAD">>)),
   Peer("smb", 1, Verbs(<<"NEGOTIATE", "NEGOTIATE", "SESSION_SETUP">>)),
   Peer("smb", 1, Verbs(<<"NEGOTIATE", "NEGOTIATE", "NEGOTIATE", "NEGOTIATE", "BAD">>)),
   Peer("smb", 1, Verbs(<<"UNKNOWN_DIALECTS">>)), Peer("smb", 1, Verbs(<<"NEGOTIATE", "BAD">>)),
   Peer("smb", 1, Verbs(<<"ECHO">>)),
   Peer("telnet", 1, <<Long("root"), Says("toor")>>), Peer("telnet", 1, Verbs(<<"TOOLONG">>)),
   Peer("telnet", 1, Verbs(<<"root">>)), Peer("telnet", 1, <<>>),
   Peer("ssh", 1, <<Long("LOGIN"), <<"text">>, <<"text", "end">>, <<"end">>, <<"exit", "end">>>>),
   Peer("ssh", 1, <<>>),
   Peer("ftp", 1, <<Long("USER"), Says("PASS"), Says("USER"), Says("PASS"), Says("EPSV"),
                   Long("SITE"), Says("QUIT")>>),
   Peer("ftp", 1, Verbs(<<"USER", "PASS", "QUIT">>)), Peer("ftp", 1, Verbs(<<"PASV", "TOOLONG">>)),
   Peer("ftp", 1, Verbs(<<"PORT", "BLANK">>))}
  \cup {Peer("web", 1, <<r>>) :
          r \in {Says("INDEX"), Long("NOT_FOUND"), Long("LOGIN"), Says("INTERNAL_DB"), Long("VIEWER"),
                 Says("NO_FILE"), Says("EMPTY_FILE"), Long("LARGE_FILE"), Long("UPLOAD"),
                 Long("UPLOAD_RENAMED"), Says("UPLOAD_RENAMED"), Says("UPLOAD_ODD"),
                 Says("OTHER_METHOD")}}

Pairs == {<<p, q>> : p \in {Peer("telnet", 1, Verbs(<<"root", "toor">>)),
                            Peer("generic", 1, <<>>)},
                     q \in Dialogues}

(* Three peers contend for two slots.                                        *)
Crowd == {<<Peer("redis", 1, Verbs(<<"AUTH", "BAD">>)), Peer("redis", 2, Verbs(<<"PING">>)),
            Peer("redis", 1, Verbs(<<"QUIT">>))>>}

Store(n) == [i \in 1..n |-> Long("STOR")]

(* Uploads of one source meet the STORs of two control connections.          *)
Transfers ==
  {<<Peer("ftp_data", 1, <<"part">>), Peer("ftp", 1, Store(2)),
     Peer("ftp_data", 1, <<"part", "part">>), Peer("ftp_data", 1, <<>>)>>,
   <<Peer("ftp_data", 1, <<"part">>), Peer("ftp", 1, Store(1)), Peer("ftp", 1, Store(1)),
     Peer("ftp_data", 1, <<"part">>)>>,
   <<Peer("ftp_data", 1, <<"part">>), Peer("ftp", 1, Verbs(<<"STOR_ODD", "STOR_RENAMED">>)),
     Peer("ftp_data", 1, <<"part">>), Peer("ftp", 1, Verbs(<<"STOR_RENAMED">>))>>,
   <<Peer("ftp_data", 1, <<"part">>), Peer("ftp", 2, Store(1)), Peer("ftp_data", 2, <<"part">>)>>}

AllWorkloads == {<<p>> : p \in Dialogues} \cup Pairs \cup Crowd \cup Transfers

Pipelined == {<<Peer("ssh", 1, <<Says("LOGIN"), <<"text", "end", "text", "end">>>>)>>,
              <<Peer("ssh", 1, <<Says("LOGIN"), <<"text", "end">>, <<"text", "end">>>>)>>}
=============================================================================
