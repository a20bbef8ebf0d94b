------------------------------ MODULE Settings ------------------------------
(***************************************************************************)
(* The configuration: options of the command line are put over those of a  *)
(* file, read into the members of Settings, and saved to the file again.   *)
(* QSettings is a function from keys to values.  It keeps a list of one    *)
(* text as that text, and gives an empty list back as no value at all.     *)
(***************************************************************************)
EXTENDS Integers, SequencesExt

CONSTANTS
  Files,     \* what the file may hold
  Options    \* what may be given on the command line

VARIABLES
  stored,    \* QSettings of the file
  read       \* the Settings that were read: one, or none yet

vars == <<stored, read>>

Has(s, k) == k \in DOMAIN s
Value(s, k, default) == IF Has(s, k) THEN s[k] ELSE default
Over(s, t) == [k \in DOMAIN s \cup DOMAIN t |-> IF k \in DOMAIN t THEN t[k] ELSE s[k]]

\* Values: texts, lists of texts, urls, flags.  toList of a text is empty.
Text(x) == [kind |-> "text", is |-> x]
Texts(xs) == [kind |-> "list", is |-> xs]
NoValue == [kind |-> "none", is |-> ""]
ToList(v) == IF v.kind = "list" THEN v.is ELSE <<>>
AsText(v) == IF v.kind = "list" THEN (IF Len(v.is) = 1 THEN v.is[1] ELSE "") ELSE v.is
\* QSettings::setValue with a list, as the file gives it back.
Written(xs) ==
  CASE Len(xs) = 0 -> NoValue
    [] Len(xs) = 1 -> Text(xs[1])
    [] OTHER -> Texts(xs)

\* "bad" stands for a text that is no url.
IsUrl(x) == x \notin {"bad", ""}
Scheme(x) == CASE x \in {"http://a", "http://b"} -> "http" [] x = "" -> "" [] OTHER -> "tcp"

ParseUrlList(v) ==
  IF v = NoValue THEN <<>>
  ELSE SelectSeq(IF ToList(v) # <<>> THEN ToList(v) ELSE <<AsText(v)>>, IsUrl)
TryParseUrl(v, scheme) ==
  IF IsUrl(AsText(v)) /\ Scheme(AsText(v)) = scheme THEN AsText(v) ELSE ""

\* Settings::Init.
InitSettings(s) ==
  LET url(k, scheme) == TryParseUrl(Value(s, k, Text("")), scheme)
      flag(k) == Value(s, k, Text("false")).is = "true"
      ids == Value(s, "local_id", NoValue)
  IN [RemotePeers |-> ParseUrlList(Value(s, "remote_peers", NoValue)),
      LocalEndPoints |-> ParseUrlList(Value(s, "endpoints", NoValue)),
      LocalNodeCount |-> Value(s, "local_nodes", Text("1")).is,
      Console |-> flag("console"),
      WebServerUrl |-> url("web_server_url", "http"),
      WebServer |-> url("web_server_url", "http") # "",
      EntryTunnelUrl |-> url("entry_tunnel_url", "tcp"),
      EntryTunnel |-> url("entry_tunnel_url", "tcp") # "",
      ExitTunnel |-> url("exit_tunnel_proxy_url", "tcp") # "" \/ flag("exit_tunnel"),
      Log |-> Value(s, "log", Text("")).is,
      Multithreading |-> flag("multithreading"),
      LocalIds |-> IF ~Has(s, "local_id") THEN <<>>
                   ELSE IF ToList(ids) # <<>> THEN ToList(ids) ELSE <<AsText(ids)>>,
      LeaderId |-> Value(s, "leader_id", Text("zero")).is,
      SuperPeer |-> flag("super_peer")]

\* Save: a list is written if it is not empty, LocalIds always.
Saved(c, s) ==
  LET flag(b) == Text(IF b THEN "true" ELSE "false")
      all == [local_nodes |-> Text(c.LocalNodeCount), web_server_url |-> Text(c.WebServerUrl),
              console |-> flag(c.Console), log |-> Text(c.Log),
              multithreading |-> flag(c.Multithreading),
              local_id |-> Written(c.LocalIds), leader_id |-> Text(c.LeaderId)]
      list(k, xs) == IF xs = <<>> THEN <<>> ELSE [x \in {k} |-> Written(xs)]
  IN Over(Over(Over(s, list("remote_peers", c.RemotePeers)), list("endpoints", c.LocalEndPoints)), all)

-----------------------------------------------------------------------------
\* CommandLineParse with a file: the options go into its QSettings.
CommandLineParse(o) ==
  /\ read = <<>>
  /\ stored' = Over(stored, o)
  /\ read' = <<InitSettings(Over(stored, o))>>

Save ==
  /\ read # <<>>
  /\ stored' = Saved(read[1], stored)
  /\ UNCHANGED read

\* The program ends; the next start has no options but the file.
Restart ==
  /\ read # <<>>
  /\ read' = <<>>
  /\ UNCHANGED stored

Init == stored \in Files /\ read = <<>>
Next == (\E o \in Options : CommandLineParse(o)) \/ Save \/ Restart
Spec == Init /\ [][Next]_vars

-----------------------------------------------------------------------------
(* Properties *)

\* What was read is what reading the file would give, before and after it is
\* saved: options stay, and Save loses nothing.  A list of local
\* ids that is empty is the exception (Save writes it, Init reads one id).
ReadBack ==
  read # <<>> /\ (read[1].LocalIds # <<>> \/ ~Has(stored, "local_id")) => InitSettings(stored) = read[1]
=============================================================================
