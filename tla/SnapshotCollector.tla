--------------------------- MODULE SnapshotCollector ---------------------------
(***************************************************************************)
(* What a submission is made of (collector.rs, ssh_source.rs): the files   *)
(* of a workspace that a manifest selects, read twice while the student    *)
(* may go on editing, once to report them (preflight) and once to archive  *)
(* them (freeze).                                                          *)
(*                                                                         *)
(* A path is a model value with its parent; a content is a number, and     *)
(* SizeOf says how long it is.  Every request to the source is a step, and *)
(* the workspace may change before the next one: each prefix of a path is  *)
(* looked at by itself, a file is looked at before and after it is read,   *)
(* and a directory is listed by itself.  A volume that is mounted refuses  *)
(* to leave its root and does not open a link; SFTP follows every link.    *)
(***************************************************************************)
EXTENDS Integers, FiniteSets, Sequences, Functions

CONSTANTS Paths,      \* the paths of the workspace
          Parent,     \* the directory of each path; a path of the root is its own
          Contents,   \* what a file may hold
          SizeOf,     \* the size of each content
          Manifests,  \* [include, exclude, required, files, bytes]
          MaxEdits    \* bound on what the student changes

VARIABLES source,     \* the entry at each path: [kind, content]
          transport,  \* "pvc" or "ssh"
          manifest,   \* the manifest of the submission
          pass,       \* "none", "preflight", "freeze", "archived" or "failed"
          rules,      \* the rules of the manifest not looked up yet
          pending,    \* the directories not listed yet
          visit,      \* what the source is being asked for: [goal, path, left, canonical, seen, bytes]
          selected,   \* the files selected, not read yet
          directories,\* the directories found
          read,       \* what has been read, by path
          report,     \* what the preflight has read
          edits       \* the number of changes

snapshotVars == <<source, transport, manifest, pass, rules, pending, visit, selected, directories, read, report, edits>>

\* What a symbolic link leads to, out of the workspace or elsewhere in it.
Outside   == 0
Elsewhere == -1
Targets   == {Outside, Elsewhere}

Rules == [kind : {"file", "tree"}, path : Paths]

ASSUME SnapshotAssumption ==
  /\ Parent \in [Paths -> Paths]
  /\ \A p \in Paths : Parent[Parent[Parent[p]]] = Parent[Parent[p]]
  /\ 1 \in Contents /\ Contents \cap Targets = {}
  /\ SizeOf \in [Contents \cup Targets -> Nat]
  /\ \A m \in Manifests : m \in [include : SUBSET Rules, exclude : SUBSET Rules, required : SUBSET Rules,
                                files : Nat, bytes : Nat]
  /\ MaxEdits \in Nat

Absent  == [kind |-> "absent", content |-> Outside]
Entries == [kind : {"file"}, content : Contents]
           \cup [kind : {"absent", "directory", "other"}, content : {Outside}]
           \cup [kind : {"symlink"}, content : Targets]
Nothing == [p \in {} |-> Outside]

Ancestors(p) == {q \in Paths : q # p /\ (q = Parent[p] \/ q = Parent[Parent[p]])}

\* The components of a path, from the root.
Prefixes(p) ==
  CASE Parent[p] = p -> <<p>>
    [] Parent[p] # p /\ Parent[Parent[p]] = Parent[p] -> <<Parent[p], p>>
    [] OTHER -> <<Parent[Parent[p]], Parent[p], p>>

\* An entry is there only if its directory is one, or a link put in its place.
Consistent(s) == \A p \in Paths : s[p] # Absent => \A q \in Ancestors(p) : s[q].kind \in {"directory", "symlink"}

NoManifest == [include |-> {}, exclude |-> {}, required |-> {}, files |-> 0, bytes |-> 0]

\* No request, or one for a path whose components are still to be looked at.
NoVisit == [goal |-> "none"]
Visits  == [goal : {"file", "tree", "list", "stat", "open", "after", "check"}, path : Paths,
            left : Seq(Paths), canonical : BOOLEAN, seen : Contents \cup Targets, bytes : Contents \cup Targets]

Visit(g, p) == [goal |-> g, path |-> p, left |-> Prefixes(p), canonical |-> transport = "ssh",
                seen |-> Outside, bytes |-> Outside]

SnapshotTypeOK ==
  /\ source \in [Paths -> Entries] /\ Consistent(source)
  /\ transport \in {"pvc", "ssh"}
  /\ manifest \in Manifests \cup {NoManifest}
  /\ pass \in {"none", "preflight", "freeze", "archived", "failed"}
  /\ rules \subseteq manifest.include
  /\ pending \subseteq Paths
  /\ visit \in {NoVisit} \cup Visits
  /\ selected \subseteq Paths /\ directories \subseteq Paths
  /\ DOMAIN read \subseteq Paths /\ DOMAIN report \subseteq Paths
  /\ edits \in 0..MaxEdits

Directory == [kind |-> "directory", content |-> Outside]

\* What a workspace looks like when it is collected.
Workspaces ==
  {s \in [Paths -> {Absent, Directory} \cup [kind : {"file"}, content : {1}]] :
     \A p \in Paths : (s[p] = Directory) <=> \E q \in Paths : p \in Ancestors(q)}

SnapshotInit ==
  /\ source = [p \in Paths |-> Absent]
  /\ transport = "pvc"
  /\ manifest = NoManifest
  /\ pass = "none"
  /\ rules = {} /\ pending = {} /\ visit = NoVisit /\ selected = {} /\ directories = {}
  /\ read = Nothing /\ report = Nothing
  /\ edits = 0

-----------------------------------------------------------------------------
\* The student changes one entry, and what is below it.
Edit ==
  /\ pass \in {"preflight", "freeze"} /\ edits < MaxEdits
  /\ \E p \in Paths, e \in Entries :
       /\ e # source[p]
       /\ source' = [q \in Paths |->
                       IF q = p THEN e
                       ELSE IF p \in Ancestors(q) /\ e.kind \notin {"directory", "symlink"} THEN Absent
                       ELSE source[q]]
       /\ Consistent(source')
  /\ edits' = edits + 1
  /\ UNCHANGED <<transport, manifest, pass, rules, pending, visit, selected, directories, read, report>>

-----------------------------------------------------------------------------
(* The source *)

\* The links above a path, and the one that is met first; a volume does not
\* follow it out of its root.
LinksAbove(p) == {q \in Ancestors(p) : source[q].kind = "symlink"}
FirstLink(p)  == IF Parent[Parent[p]] \in LinksAbove(p) THEN Parent[Parent[p]] ELSE Parent[p]
Reachable(p)  == transport = "ssh" \/ LinksAbove(p) = {} \/ source[FirstLink(p)].content # Outside

\* metadata: what is at a path, which is not followed, by way of the links above
\* it: they are taken to lead to files of the same names.
Lookup(p) ==
  IF LinksAbove(p) = {} THEN source[p] ELSE [kind |-> "file", content |-> source[FirstLink(p)].content]

\* What is read when the file is opened: SFTP follows a link, a volume does not.
Openable(p) == Reachable(p) /\ Lookup(p).kind \in IF transport = "ssh" THEN {"file", "symlink"} ELSE {"file"}

-----------------------------------------------------------------------------
(* validate_relative_ancestors, validate_remote_path *)

Visiting(goal) == pass \in {"preflight", "freeze"} /\ visit.goal = goal
Validated == visit.left = <<>> /\ ~visit.canonical

\* The next component: what is absent ends the validation, a link and what is
\* not a directory above the path end the collection.
ValidateComponent ==
  /\ pass \in {"preflight", "freeze"} /\ visit # NoVisit /\ visit.left # <<>>
  /\ LET p == Head(visit.left) IN
       /\ Reachable(p)
       /\ \/ Lookup(p) = Absent /\ visit' = [visit EXCEPT !.left = <<>>, !.canonical = FALSE]
          \/ /\ Lookup(p).kind \in IF p = visit.path THEN {"file", "directory", "other"} ELSE {"directory"}
             /\ visit' = [visit EXCEPT !.left = Tail(@)]
  /\ UNCHANGED <<source, transport, manifest, pass, rules, pending, selected, directories, read, report, edits>>

\* SFTP: the canonical path is the path.
Canonicalize ==
  /\ pass \in {"preflight", "freeze"} /\ visit # NoVisit /\ visit.left = <<>> /\ visit.canonical
  /\ LinksAbove(visit.path) = {} /\ source[visit.path].kind # "symlink"
  /\ visit' = [visit EXCEPT !.canonical = FALSE]
  /\ UNCHANGED <<source, transport, manifest, pass, rules, pending, selected, directories, read, report, edits>>

-----------------------------------------------------------------------------
(* collect_snapshot: the rules *)

\* Rules, directories and files are taken in an order of their own.
NextOf(S) == CHOOSE x \in S : TRUE

\* covers
Covers(rule, p) == rule.path = p \/ (rule.kind = "tree" /\ rule.path \in Ancestors(p))

Excluded(p) == \E rule \in manifest.exclude : Covers(rule, p)

\* One rule of the manifest.
SelectRule ==
  /\ Visiting("none") /\ pending = {}
  /\ rules # {}
  /\ LET rule == NextOf(rules) IN
       /\ rules' = rules \ {rule}
       /\ visit' = IF rule.kind = "file" /\ Excluded(rule.path) THEN NoVisit ELSE Visit(rule.kind, rule.path)
  /\ UNCHANGED <<source, transport, manifest, pass, pending, selected, directories, read, report, edits>>

\* validate_selected_metadata
SelectFile ==
  /\ Visiting("file") /\ Validated /\ Reachable(visit.path)
  /\ Lookup(visit.path) = Absent \/ Lookup(visit.path).kind = "file"
  /\ selected' = IF Lookup(visit.path) = Absent THEN selected ELSE selected \cup {visit.path}
  /\ visit' = NoVisit
  /\ UNCHANGED <<source, transport, manifest, pass, rules, pending, directories, read, report, edits>>

SelectTree ==
  /\ Visiting("tree") /\ Validated /\ Reachable(visit.path)
  /\ Lookup(visit.path) \in {Absent, Directory}
  /\ LET found == IF Lookup(visit.path) = Absent THEN {} ELSE {visit.path}
     IN  pending' = found /\ directories' = directories \cup found
  /\ visit' = NoVisit
  /\ UNCHANGED <<source, transport, manifest, pass, rules, selected, read, report, edits>>

-----------------------------------------------------------------------------
(* walk_directory *)

\* read_dir, which looks at the path once more before it lists it.
WalkDirectory ==
  /\ Visiting("none")
  /\ pending # {}
  /\ pending' = pending \ {NextOf(pending)} /\ visit' = Visit("list", NextOf(pending))
  /\ UNCHANGED <<source, transport, manifest, pass, rules, selected, directories, read, report, edits>>

\* The entries of a directory; a link in its place is followed.
Children(d) == {p \in Paths : p # d /\ Parent[p] = d /\ Lookup(p) # Absent}

\* A link, or what is neither a file nor a directory nor excluded, ends the collection.
ListDirectory ==
  /\ Visiting("list") /\ Validated
  /\ LET d     == visit.path
         found == {p \in Children(d) : ~Excluded(p)}
     IN  /\ Reachable(d) /\ Lookup(d).kind \in {"directory", "symlink"}
         /\ \A p \in Children(d) : Reachable(p) /\ Lookup(p).kind # "symlink"
         /\ \A p \in found : Lookup(p).kind # "other"
         /\ selected' = selected \cup {p \in found : Lookup(p).kind = "file"}
         /\ directories' = directories \cup {p \in found : Lookup(p).kind = "directory"}
         /\ pending' = pending \cup {p \in found : Lookup(p).kind = "directory"}
         /\ Cardinality(selected') <= manifest.files
  /\ visit' = NoVisit
  /\ UNCHANGED <<source, transport, manifest, pass, rules, read, report, edits>>

-----------------------------------------------------------------------------
(* collect_snapshot: the files *)

\* validate_required
Required ==
  \A rule \in manifest.required :
    rule.path \in IF rule.kind = "file" THEN selected \cup DOMAIN read ELSE directories

Bytes(contents) == SumFunction([p \in DOMAIN contents |-> SizeOf[contents[p]]])

\* Every rule has been looked up.
Selected ==
  /\ rules = {} /\ pending = {}
  /\ Required
  /\ selected \cup DOMAIN read # {}
  /\ Cardinality(selected \cup DOMAIN read) <= manifest.files

\* read_file; of the two validations that come first, the second one matters.
ReadFile ==
  /\ Visiting("none") /\ Selected
  /\ selected # {} /\ visit' = Visit("stat", NextOf(selected))
  /\ UNCHANGED <<source, transport, manifest, pass, rules, pending, selected, directories, read, report, edits>>

Fits(content) == Bytes(read) + SizeOf[content] <= manifest.bytes

StatFile ==
  /\ Visiting("stat") /\ Validated /\ Reachable(visit.path)
  /\ Lookup(visit.path).kind = "file" /\ Fits(Lookup(visit.path).content)
  /\ visit' = [visit EXCEPT !.goal = "open", !.seen = Lookup(visit.path).content]
  /\ UNCHANGED <<source, transport, manifest, pass, rules, pending, selected, directories, read, report, edits>>

OpenFile ==
  /\ Visiting("open") /\ Openable(visit.path) /\ Fits(Lookup(visit.path).content)
  /\ visit' = [visit EXCEPT !.goal = "after", !.bytes = Lookup(visit.path).content]
  /\ UNCHANGED <<source, transport, manifest, pass, rules, pending, selected, directories, read, report, edits>>

\* The file is there as before, of the size that was read.
Unchanged(after) ==
  /\ after.kind = "file" /\ SizeOf[after.content] = SizeOf[visit.seen]
  /\ SizeOf[visit.bytes] = SizeOf[after.content]

StatAgain ==
  /\ Visiting("after") /\ Reachable(visit.path) /\ Unchanged(Lookup(visit.path))
  /\ visit' = [visit EXCEPT !.goal = "check", !.left = Prefixes(visit.path), !.canonical = (transport = "ssh")]
  /\ UNCHANGED <<source, transport, manifest, pass, rules, pending, selected, directories, read, report, edits>>

FileRead ==
  /\ Visiting("check") /\ Validated
  /\ selected' = selected \ {visit.path}
  /\ read' = [q \in DOMAIN read \cup {visit.path} |-> IF q = visit.path THEN visit.bytes ELSE read[q]]
  /\ visit' = NoVisit
  /\ UNCHANGED <<source, transport, manifest, pass, rules, pending, directories, report, edits>>

-----------------------------------------------------------------------------
Start(next) ==
  /\ pass' = next
  /\ rules' = manifest'.include
  /\ pending' = {} /\ visit' = NoVisit
  /\ selected' = {} /\ directories' = {} /\ read' = Nothing

Preflight ==
  /\ pass = "none"
  /\ source' \in Workspaces
  /\ transport' \in {"pvc", "ssh"}
  /\ manifest' \in Manifests
  /\ Start("preflight")
  /\ UNCHANGED <<report, edits>>

PreflightEnds ==
  /\ pass = "preflight" /\ visit = NoVisit /\ Selected /\ selected = {}
  /\ report' = read
  /\ UNCHANGED <<source, transport, manifest, edits>>
  /\ Start("freeze")

\* A file's identity is its path, its size and its media type.
SameFiles(a, b) == DOMAIN a = DOMAIN b /\ \A p \in DOMAIN a : SizeOf[a[p]] = SizeOf[b[p]]

FreezeEnds ==
  /\ pass = "freeze" /\ visit = NoVisit /\ Selected /\ selected = {}
  /\ SameFiles(read, report)
  /\ pass' = "archived"
  /\ UNCHANGED <<source, transport, manifest, rules, pending, visit, selected, directories, read, report, edits>>

\* Whatever a step does not allow; the source that cannot be reached, too.
CollectFails ==
  /\ pass \in {"preflight", "freeze"}
  /\ pass' = "failed"
  /\ rules' = {} /\ pending' = {} /\ visit' = NoVisit
  /\ selected' = {} /\ directories' = {} /\ read' = Nothing /\ report' = Nothing
  /\ UNCHANGED <<source, transport, manifest, edits>>

SnapshotStep ==
  \/ Edit \/ Preflight
  \/ ValidateComponent \/ Canonicalize \/ SelectRule \/ SelectFile \/ SelectTree \/ WalkDirectory \/ ListDirectory
  \/ ReadFile \/ StatFile \/ OpenFile \/ StatAgain \/ FileRead
  \/ PreflightEnds \/ FreezeEnds \/ CollectFails
=============================================================================
