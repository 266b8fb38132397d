---- MODULE Watcher ----
(***************************************************************************)
(* The targets directory and the goroutine that follows it                 *)
(* (targets/watch.go, targets.go, main.go).  People edit files whenever    *)
(* they like; the watcher compares fingerprints, reads the files one after *)
(* another, puts what it read in force or reports it, and then has the     *)
(* controller forget what left.                                            *)
(*                                                                         *)
(* A file's content is the ids it lists, or Broken for one that does not   *)
(* parse or fails validation.  A file's edits are numbered: size and       *)
(* modification time together tell any two of them apart.                  *)
(***************************************************************************)
EXTENDS Naturals, FiniteSets

CONSTANTS
  Targets,     \* target ids
  Paths,       \* the directory's files, numbered in name order
  Contents,    \* what an edit may put in a file: sets of ids, or Broken
  Broken,
  MaxUpsets    \* bound: edits of all files and stops of the process together

ASSUME ContentsAssumption ==
  /\ MaxUpsets \in Nat
  /\ \A c \in Contents : c = Broken \/ c \subseteq Targets

VARIABLES
  dir,      \* path -> [edit, lines]: which edit wrote it, and what
  current,  \* Watcher.current: the set in force
  stamp,    \* Watcher.stamp: the fingerprint that goes with it
  stage,    \* where the watcher's goroutine is
  taken,    \* the fingerprint this load began with
  read,     \* path -> lines, for the files this load has read
  leaving,  \* ids a load removed, still to be forgotten
  error,    \* Controller.targetsError is set
  missed,   \* an edit fell between the first load and its fingerprint
  upsets    \* how many edits and stops there were

watchVars == <<dir, current, stamp, stage, taken, read, leaving, error, missed, upsets>>

\* "down" is NewWatcher before its load has succeeded, "up" before its
\* fingerprint; then "idle", "load", and what follows a load.
Stages == {"down", "up", "idle", "load", "reload", "report", "forget"}

Nothing == [p \in {} |-> {}]

\* Before a process has taken any fingerprint.
NoStamp == [p \in Paths |-> 0]

\* Mutant of Fingerprint: names only.
FingerprintByName == [p \in Paths |-> 0]

\* fingerprint: names, sizes and times of the files.
Fingerprint == [p \in Paths |-> dir[p].edit]

\* Files that are read together make a set when none is broken and no id is
\* in two of them.
Valid(files) ==
  /\ \A p \in DOMAIN files : files[p] # Broken
  /\ \A p, q \in DOMAIN files : p # q => files[p] \cap files[q] = {}

SetOf(files) == UNION {files[p] : p \in DOMAIN files}

\* The directory as it is.
Lines == [p \in Paths |-> dir[p].lines]

WatchTypeOK ==
  /\ \A p \in Paths : dir[p].edit \in 0 .. upsets /\ dir[p].lines \in Contents
  /\ upsets \in 0 .. MaxUpsets
  /\ current \subseteq Targets /\ leaving \subseteq Targets \ current
  /\ stage \in Stages
  /\ DOMAIN stamp = Paths /\ DOMAIN taken = Paths
  /\ DOMAIN read \subseteq Paths
  /\ error \in BOOLEAN /\ missed \in BOOLEAN

WatchInit ==
  /\ dir \in {d \in [Paths -> [edit : {0}, lines : Contents]] :
                Valid([p \in Paths |-> d[p].lines])}
  /\ current = {} /\ stamp = NoStamp /\ taken = NoStamp
  /\ stage = "down" /\ read = Nothing
  /\ leaving = {} /\ error = FALSE /\ missed = FALSE
  /\ upsets = 0

-----------------------------------------------------------------------------
\* People.

Edit(p) ==
  /\ upsets < MaxUpsets
  /\ upsets' = upsets + 1
  /\ \E c \in Contents : dir' = [dir EXCEPT ![p] = [edit |-> @.edit + 1, lines |-> c]]
  /\ missed' = (missed \/ stage = "up" \/ (stage = "down" /\ read # Nothing))
  /\ UNCHANGED <<current, stamp, stage, taken, read, leaving, error>>

-----------------------------------------------------------------------------
\* Load: the files one after another.

ReadFile(p) ==
  /\ stage \in {"down", "load"}
  /\ p \notin DOMAIN read
  /\ \A q \in Paths : q < p => q \in DOMAIN read
  /\ read' = [q \in DOMAIN read \cup {p} |-> IF q = p THEN dir[p].lines ELSE read[q]]
  /\ UNCHANGED <<dir, current, stamp, stage, taken, leaving, error, missed, upsets>>

\* The first load: a set in force, or a process that does not start and is
\* started again.
FirstLoad ==
  /\ stage = "down" /\ DOMAIN read = Paths
  /\ IF Valid(read) THEN current' = SetOf(read) /\ stage' = "up" /\ UNCHANGED missed
     ELSE stage' = "down" /\ missed' = FALSE /\ UNCHANGED current
  /\ read' = Nothing
  /\ UNCHANGED <<dir, stamp, taken, leaving, error, upsets>>

\* Its fingerprint, taken afterwards.
FirstStamp ==
  /\ stage = "up"
  /\ stamp' = Fingerprint
  /\ stage' = "idle"
  /\ UNCHANGED <<dir, current, taken, read, leaving, error, missed, upsets>>

\* A poll that sees another fingerprint loads.
Poll ==
  /\ stage = "idle"
  /\ Fingerprint # stamp
  /\ taken' = Fingerprint
  /\ stage' = "load"
  /\ missed' = FALSE
  /\ UNCHANGED <<dir, current, stamp, read, leaving, error, upsets>>

\* A poll that cannot take the fingerprint, because a file vanishes between
\* being listed and being looked at, reports that.
PollFails ==
  /\ stage = "idle"
  /\ error' = TRUE
  /\ UNCHANGED <<dir, current, stamp, stage, taken, read, leaving, missed, upsets>>

\* Mutant of StampOf: the fingerprint is taken once the files were read.
StampAfter(before) == Fingerprint

\* The fingerprint a load is remembered by: the one it began with.
StampOf(before) == before

Loaded ==
  /\ stage = "load" /\ DOMAIN read = Paths
  /\ IF Valid(read)
     THEN /\ current' = SetOf(read)
          /\ leaving' = current \ current'
          /\ stage' = "reload"
     ELSE stage' = "report" /\ UNCHANGED <<current, leaving>>
  /\ stamp' = StampOf(taken)
  /\ read' = Nothing
  /\ UNCHANGED <<dir, taken, error, missed, upsets>>

Report ==
  /\ stage = "report"
  /\ error' = TRUE
  /\ stage' = "idle"
  /\ UNCHANGED <<dir, current, stamp, taken, read, leaving, missed, upsets>>

\* The callback: the error is over, then what left is forgotten.
Reloaded ==
  /\ stage = "reload"
  /\ error' = FALSE
  /\ stage' = IF leaving = {} THEN "idle" ELSE "forget"
  /\ UNCHANGED <<dir, current, stamp, taken, read, leaving, missed, upsets>>

ForgetRemoved ==
  /\ stage = "forget"
  /\ leaving' = {}
  /\ stage' = "idle"
  /\ UNCHANGED <<dir, current, stamp, taken, read, error, missed, upsets>>

-----------------------------------------------------------------------------
\* The process stops; the next one starts with NewWatcher.
WatchCrash ==
  /\ upsets < MaxUpsets
  /\ upsets' = upsets + 1
  /\ stage' = "down" /\ read' = Nothing
  /\ current' = {} /\ stamp' = NoStamp /\ taken' = NoStamp
  /\ leaving' = {} /\ error' = FALSE /\ missed' = FALSE
  /\ UNCHANGED dir

\* The watcher's goroutine, its callback aside.
WatchStep ==
  (\E p \in Paths : ReadFile(p)) \/ FirstLoad \/ FirstStamp \/ Poll \/ Loaded \/ Report \/ Reloaded

-----------------------------------------------------------------------------
\* Properties.

\* Between polls, a directory whose fingerprint the watcher remembers is the
\* one in force, or its error is shown: whatever was edited while it was read.
\* An edit during the first load is the exception (watch.go:41).
LoadedOrReported ==
  stage = "idle" /\ stamp = Fingerprint /\ ~missed =>
    IF Valid(Lines) THEN current = SetOf(Lines) ELSE error

\* A directory that people leave alone comes into force, if it is valid.
Follows ==
  \A s \in SUBSET Targets :
    <>[](Valid(Lines) /\ SetOf(Lines) = s) => <>[](current = s \/ missed)

====
