----------------------- MODULE HostConfigurationMerge -----------------------
(***************************************************************************)
(* What set_up_mcp_servers.py renders for the MCP hosts: the servers it    *)
(* manages are put into documents that belong to the user, a TOML text     *)
(* that is edited by line and a JSON object, and names of earlier versions *)
(* are taken out.  Between two runs the user may insert a line.            *)
(*                                                                         *)
(* A line of the TOML text is <<kind, name>>: the markers of a managed     *)
(* block, the headers [mcp_servers.name], [mcp_servers.name.x] and         *)
(* [mcp_servers."name"], the whole managed entry as it is or as it was,    *)
(* and the tables, keys and comments of the user.  Blank lines are left    *)
(* out.                                                                    *)
(***************************************************************************)
EXTENDS Naturals, SequencesExt

CONSTANTS
  Managed,         \* names of the managed servers in the order of their merge
  Legacy,          \* names of earlier versions, in the order of their removal
  CodexTexts,      \* TOML texts a user may have, as sequences of lines
  JsonDocuments,   \* JSON documents a user may have
  InsertedLines    \* lines a user may insert after a setup

User == "user"

Names == ToSet(Managed) \cup ToSet(Legacy)
Lines == {"table", "child", "quoted", "entry", "formerly", "key", "comment", "begin", "end"}
           \X (Names \cup {User})

MergeAssumption ==
  /\ Managed \in Seq(ToSet(Managed)) /\ Legacy \in Seq(ToSet(Legacy))
  /\ User \notin Names
  /\ ToSet(Managed) \cap ToSet(Legacy) = {}
  /\ CodexTexts \subseteq Seq(Lines) /\ InsertedLines \subseteq Lines
ASSUME MergeAssumption

VARIABLES
  text,        \* the Codex document
  json,        \* the other hosts' document
  before,      \* history: the text and the document that the last setup read
  phase        \* "new", "given", "set up", "edited" or "refused"
mergeVars == <<text, json, before, phase>>

JsonEmpty == [shape |-> "object", servers |-> [n \in {} |-> "entry"]]

MergeInit == /\ text = <<>>
             /\ json = JsonEmpty
             /\ before = [text |-> <<>>, json |-> JsonEmpty]
             /\ phase = "new"

---------------------------------------------------------------------------
(* What tomllib makes of a text.                                           *)

IsHeader(line) == line[1] \in {"table", "child", "quoted"}
IsKey(line) == line[1] \in {"entry", "formerly", "key"}
IsComment(line) == line[1] \in {"comment", "begin", "end"}

\* Index of the header a line is under, 0 for the top level.
Section(t, i) == LET above == {h \in 1..i : IsHeader(t[h])}
                 IN IF above = {} THEN 0 ELSE Max(above)

SameTable(a, b) ==
  a = b \/ (a[2] = b[2] /\ {a[1], b[1]} = {"table", "quoted"})
\* Each table is declared once, and the keys of a table are different: a former entry has
\* keys of the present one.
Valid(t) ==
  \A i, j \in DOMAIN t :
    i < j => /\ IsHeader(t[i]) /\ IsHeader(t[j]) => ~SameTable(t[i], t[j])
             /\ IsKey(t[i]) /\ IsKey(t[j]) /\ Section(t, i) = Section(t, j)
                  => (t[i][1] = "key") # (t[j][1] = "key")

Declares(t, n) == \E i \in DOMAIN t : IsHeader(t[i]) /\ t[i][2] = n
\* [mcp_servers.n] is the managed entry and nothing else.
Resolves(t, n) ==
  /\ \A i \in DOMAIN t : t[i] # <<"child", n>>
  /\ \E h \in DOMAIN t :
       /\ t[h] \in {<<"table", n>>, <<"quoted", n>>}
       /\ {t[i] : i \in {k \in DOMAIN t : IsKey(t[k]) /\ Section(t, k) = h}}
            = {<<"entry", n>>}

---------------------------------------------------------------------------
(* merge_codex_mcp_host_configuration and remove_codex_mcp_server_table:   *)
(* each gives a text, or RefusedText.                                      *)

RefusedText == <<<<"refused", User>>>>

\* The first match of a marker pattern, 0 if there is none.
First(t, line) == LET at == {i \in DOMAIN t : t[i] = line}
                  IN IF at = {} THEN 0 ELSE Min(at)
BeginOf(t, n) == First(t, <<"begin", n>>)
EndOf(t, n) == First(t, <<"end", n>>)
Without(t, from, to) == SubSeq(t, 1, from - 1) \o SubSeq(t, to + 1, Len(t))

Block(n) == << <<"begin", n>>, <<"table", n>>, <<"entry", n>>, <<"end", n>> >>

\* The block is replaced where it is, or appended.
Placed(t, n) ==
  LET b == BeginOf(t, n)
      e == EndOf(t, n)
  IN IF b > 0 /\ e > b
     THEN IF \E i \in DOMAIN Without(t, b, e) : Without(t, b, e)[i] = <<"child", n>>
          THEN RefusedText
          ELSE SubSeq(t, 1, b - 1) \o Block(n) \o SubSeq(t, e + 1, Len(t))
     ELSE IF \E i \in DOMAIN t : t[i] \in {<<"table", n>>, <<"child", n>>}
          THEN RefusedText
          ELSE t \o Block(n)
MergeCodex(t, n) ==
  IF t = RefusedText THEN RefusedText
  ELSE LET merged == Placed(t, n)
       IN IF Valid(merged) /\ Resolves(merged, n) THEN merged ELSE RefusedText

\* The lines of a text at some of its indices.
At(t, indices) ==
  LET Take(s, i) == IF i \in indices THEN Append(s, t[i]) ELSE s
  IN FoldLeftDomain(Take, <<>>, t)

\* The sections of an obsolete table, of which comments stay.
Obsolete(t, n, i) == /\ Section(t, i) > 0
                     /\ t[Section(t, i)] \in {<<"table", n>>, <<"child", n>>}
WithoutSections(t, n) ==
  At(t, {i \in DOMAIN t : ~Obsolete(t, n, i) \/ IsComment(t[i])})
RemoveCodexTable(t, n) ==
  LET b == BeginOf(t, n)
      e == EndOf(t, n)
  IN IF t = RefusedText \/ ((b > 0 \/ e > 0) /\ ~(b > 0 /\ e > b)) THEN RefusedText
     ELSE WithoutSections(IF b > 0 THEN Without(t, b, e) ELSE t, n)
\* _require_legacy_codex_mcp_server_is_absent_after_source_migration.
Migrate(t, n) ==
  LET removed == RemoveCodexTable(t, n)
  IN IF removed # RefusedText /\ Valid(removed) /\ ~Declares(removed, n)
     THEN removed ELSE RefusedText

RenderCodex(t) == FoldLeft(MergeCodex, FoldLeft(Migrate, t, Legacy), Managed)

---------------------------------------------------------------------------
(* merge_json_mcp_host_configuration for all names.  A document is blank   *)
(* or absent ("none"), an object with a map of servers, an object without  *)
(* one ("no servers"), or one of those the merge refuses.                  *)

Mergeable(j) == j.shape \in {"none", "no servers", "object"}
Servers(j) == IF j.shape = "object" THEN j.servers ELSE JsonEmpty.servers
RenderJson(j) ==
  [shape |-> "object",
   servers |-> [n \in (DOMAIN Servers(j) \ ToSet(Legacy)) \cup ToSet(Managed) |->
                  IF n \in ToSet(Managed) THEN "entry" ELSE Servers(j)[n]]]

---------------------------------------------------------------------------
Give(t, j) == /\ phase = "new"
              /\ phase' = "given"
              /\ text' = t /\ json' = j
              /\ UNCHANGED before

\* Every document is rendered before the first is published.
SetUpHosts ==
  /\ phase \in {"given", "edited"}
  /\ before' = [text |-> text, json |-> json]
  /\ LET rendered == RenderCodex(text)
         refused == rendered = RefusedText \/ ~Mergeable(json)
     IN /\ phase' = IF refused THEN "refused" ELSE "set up"
        /\ text' = IF refused THEN text ELSE rendered
        /\ json' = IF refused THEN json ELSE RenderJson(json)

\* The user inserts a line, once.
InsertLine(line, i) == /\ phase = "set up" /\ before.text # text
                       /\ phase' = "edited"
                       /\ text' = InsertAt(text, i, line)
                       /\ UNCHANGED <<json, before>>

MergeNext == \/ \E t \in CodexTexts : Give(t, JsonEmpty)
             \/ \E j \in JsonDocuments : Give(<<>>, j)
             \/ SetUpHosts
             \/ \E line \in InsertedLines, i \in 1..(Len(text) + 1) : InsertLine(line, i)

MergeSpec == MergeInit /\ [][MergeNext]_mergeVars

---------------------------------------------------------------------------
(* Properties.                                                             *)

\* A marker and the next one of its name, if they begin and end a block, own what is
\* between them.
Owns(t, n, i) ==
  \E b \in 1..i, e \in i..Len(t) :
    /\ t[b] = <<"begin", n>> /\ t[e] = <<"end", n>>
    /\ \A k \in (b + 1)..(e - 1) : t[k] \notin {<<"begin", n>>, <<"end", n>>}

\* The user has not broken a pair of markers, nor put one into a block of another name.
Paired(t, n) ==
  LET begins == {i \in DOMAIN t : t[i] = <<"begin", n>>}
      ends == {i \in DOMAIN t : t[i] = <<"end", n>>}
  IN \/ begins = {} /\ ends = {}
     \/ \E b, e \in DOMAIN t : b < e /\ begins = {b} /\ ends = {e}
WellMarked(t) ==
  \A n \in Names :
    /\ Paired(t, n)
    /\ \A i \in DOMAIN t : Owns(t, n, i) /\ IsComment(t[i]) => t[i][2] \notin Names \ {n}

\* What is left of a text without what an obsolete name owns: its block, then the sections
\* of its tables, of which comments stay.
Disowned(t, n) == LET u == At(t, {i \in DOMAIN t : ~Owns(t, n, i)})
                  IN At(u, {i \in DOMAIN u : ~Obsolete(u, n, i) \/ IsComment(u[i])})
\* The lines of the user that neither a managed block nor an obsolete name owns.
Kept(t) == LET u == FoldLeft(Disowned, t, Legacy)
           IN At(u, {i \in DOMAIN u : /\ u[i][2] = User
                                      /\ \A n \in ToSet(Managed) : ~Owns(u, n, i)})

\* A setup leaves a document in which each managed server is its entry and no legacy name
\* is declared, whichever merge came last; running it again changes nothing; and the
\* user's lines and other servers are kept, as long as the markers are in pairs and no
\* block is inside another.
MergeFaithful ==
  phase = "set up" /\ WellMarked(before.text) =>
    /\ \A n \in ToSet(Managed) : Resolves(text, n) /\ json.servers[n] = "entry"
    /\ \A n \in ToSet(Legacy) : ~Declares(text, n) /\ n \notin DOMAIN json.servers
    /\ \A n \in DOMAIN Servers(before.json) \ Names :
         n \in DOMAIN json.servers /\ json.servers[n] = before.json.servers[n]
    /\ RenderCodex(text) = text /\ RenderJson(json) = json
    /\ Kept(text) = Kept(before.text)
=============================================================================
