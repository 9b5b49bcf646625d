------------------------------- MODULE Files --------------------------------
(***************************************************************************)
(* The file operations of the container runtime server.                    *)
(*                                                                         *)
(* The tools of a batch run side by side, and every operation of the       *)
(* server is a series of calls of the file system with others in between:  *)
(* writes, appends and edits of a file, and the walks of ls, find and grep *)
(* over the tree.  Content is a sequence of marks: a call writes its own,  *)
(* so that what became of a change can be told.                            *)
(***************************************************************************)
EXTENDS Naturals, Sequences, FiniteSets

CONSTANTS
    Slots,       \* operations the server may have under way at once
    Stamps,      \* values of Date.now() when edits write their temporary
                 \* files: equal ones fall within a millisecond
    MaxCalls,    \* calls of a tool (bound)
    MaxResults,  \* entries a walk may return
    MaxMishaps   \* broken connections and removals by commands (bound)

ASSUME FilesAssumption ==
    /\ IsFiniteSet(Slots)
    /\ Stamps \subseteq Nat \ {0}
    /\ MaxCalls \in Nat
    /\ MaxResults \in Nat \ {0}
    /\ MaxMishaps \in Nat

VARIABLES
    dir,         \* the file at each name, None when there is none
    sub,         \* whether the directory that holds g is there
    disk,        \* the content of each inode
    op,          \* what is under way in each slot
    calls,       \* calls so far; the mark of a call is its number
    broken,      \* requests whose connection breaks before their answer is
                 \* read, to be sent again
    due,         \* marks that must be in f or in g (history)
    clashed,     \* two edits of a file shared a temporary file (history)
    told,        \* the last answer of a walk, until the next call
    mishaps

vars == <<dir, sub, disk, op, calls, broken, due, clashed, told, mishaps>>

None   == 0
Files  == {"f", "g"}               \* f in the workspace, g in the directory
Names  == Files \X ({0} \cup Stamps)   \* 0: the file itself
Sub    == <<"sub", 0>>
Inodes == 1..(2 + 2 * Cardinality(Slots))
Old    == MaxCalls + 1             \* the mark of what was there at first
Hole   == 0                        \* what a gap in a file reads as
Chunks == 2                        \* write calls for the content of a file
At(r, place) == op[r].at = place

Free == [does |-> "nothing", at |-> "free", k |-> 0, file |-> "f", seek |-> 0, ino |-> None,
         text |-> <<>>, done |-> 0, stamp |-> 0, met |-> FALSE,
         todo |-> <<>>, found |-> {}, stayed |-> {}, ever |-> {}]

Changes == {"write", "append", "edit"}
Walks   == {"ls", "find", "grep"}
Marks(text)  == {text[i] : i \in DOMAIN text}
Itself(o)    == <<o.file, 0>>
Content(f)   == IF dir[<<f, 0>>] = None THEN <<>> ELSE disk[dir[<<f, 0>>]]
Unused == CHOOSE i \in Inodes : /\ \A n \in Names : dir[n] # i
                                /\ \A r \in Slots : op[r].ino # i

-----------------------------------------------------------------------------
(* Faulty variants, each of which breaks a property when it stands in the  *)
(* place of the definition named.                                          *)

(* Target: the edit writes into the file itself.                           *)
TargetItself(o) == <<o.file, 0>>

(* Replaced: what surrounds the match is dropped.                          *)
ReplacedAlone(text, x, mark) == <<mark>>

(* Full: one result too early, and not reported as the limit.              *)
FullTooEarly(o) == Cardinality(o.found) + 1 >= MaxResults /\ o.todo # <<>>

-----------------------------------------------------------------------------
(* What operations compute.                                                *)

(* The written text at an offset: what lies beyond the end is a hole.      *)
Overwrite(text, at, mark) ==
    [i \in 1..(IF at > Len(text) THEN at ELSE Len(text)) |->
        IF i = at THEN mark ELSE IF i <= Len(text) THEN text[i] ELSE Hole]

Matches(text, x) == Cardinality({i \in DOMAIN text : text[i] = x})
Replaced(text, x, mark) == [i \in DOMAIN text |-> IF text[i] = x THEN mark ELSE text[i]]

(* Where an edit writes its new content.                                   *)
Target(o) == <<o.file, o.stamp>>

(* The entries of a directory, and whether a walk returns and enters them. *)
Entries(d, s, place) ==
    IF place = "top"
      THEN {n \in Names : d[n] # None /\ n[1] = "f"} \cup (IF s THEN {Sub} ELSE {})
      ELSE {n \in Names : d[n] # None /\ n[1] = "g"}
Tree(d, s) == Entries(d, s, "top") \cup (IF s THEN Entries(d, s, "sub") ELSE {})

Wanted(o, n) ==
    CASE o.does = "ls"   -> TRUE
      [] o.does = "find" -> n # Sub
      [] o.does = "grep" -> n # Sub /\ dir[n] # None /\ o.seek \in Marks(disk[dir[n]])

Full(o) == Cardinality(o.found) >= MaxResults

Answer(o, ok) == [ok |-> ok, full |-> Cardinality(o.found) >= MaxResults,
                  does |-> o.does, found |-> o.found, stayed |-> o.stayed, ever |-> o.ever]

-----------------------------------------------------------------------------
(* Every walk under way has seen what stayed and what ever was.            *)
Observed(ops, d, s) ==
    [r \in Slots |-> IF ops[r].does \in Walks
        THEN [ops[r] EXCEPT !.stayed = @ \cap Tree(d, s), !.ever = @ \cup Tree(d, s)]
        ELSE ops[r]]

(* A change meets the others that are under way on its file.               *)
Meeting(o) ==
    LET others == {r \in Slots : op[r].does \in Changes /\ op[r].file = o.file}
    IN  [r \in Slots |-> IF r \in others THEN [op[r] EXCEPT !.met = TRUE] ELSE op[r]]

Meets(o) == \E r \in Slots : op[r].does \in Changes /\ op[r].file = o.file

Begin(r, o) ==
    /\ At(r, "free")
    /\ op' = IF o.does \in Changes
               THEN [Meeting(o) EXCEPT ![r] = [o EXCEPT !.met = Meets(o)]]
               ELSE [op EXCEPT ![r] = [o EXCEPT !.stayed = Tree(dir, sub),
                                                !.ever   = Tree(dir, sub)]]

(* From now on a mark is no longer due: the request is to remove it.       *)
StillDue(does, f, x) ==
    CASE does = "write" -> {m \in due : m[1] # f}
      [] does = "edit"  -> due \ {<<f, x>>}
      [] OTHER          -> due

Ask(r, does, f, x) ==
    /\ calls < MaxCalls
    /\ calls' = calls + 1
    /\ Begin(r, [Free EXCEPT !.does = does, !.k = calls + 1, !.file = f, !.seek = x,
                             !.at = CASE does = "edit" -> "read"
                                      [] does \in Walks -> "open"
                                      [] OTHER -> "mkdir"])
    /\ due' = StillDue(does, f, x)
    /\ told' = Answer(Free, FALSE)
    /\ UNCHANGED <<dir, sub, disk, clashed>>

Call(r, does, f, x) == Ask(r, does, f, x) /\ UNCHANGED <<broken, mishaps>>

Fails(r) == op' = [op EXCEPT ![r] = Free]

-----------------------------------------------------------------------------
(* Write and append.                                                       *)

Mkdir(r) ==
    /\ At(r, "mkdir")
    /\ sub' = (sub \/ op[r].file = "g")
    /\ op' = Observed([op EXCEPT ![r].at = "create"], dir, sub')
    /\ UNCHANGED <<dir, disk, calls, due, clashed, told, mishaps>>

OpenToWrite(r) ==
    LET o == op[r]
        i == IF dir[Itself(o)] = None THEN Unused ELSE dir[Itself(o)]
    IN  /\ At(r, "create")
        /\ IF o.file = "g" /\ ~sub
             THEN Fails(r) /\ UNCHANGED <<dir, disk>>
             ELSE /\ dir' = [dir EXCEPT ![Itself(o)] = i]
                  /\ disk' = IF dir[Itself(o)] = None \/ o.does = "write"
                               THEN [disk EXCEPT ![i] = <<>>] ELSE disk
                  /\ op' = Observed([op EXCEPT ![r].at = "fill", ![r].ino = i], dir', sub)
        /\ UNCHANGED <<sub, calls, due, clashed, told, mishaps>>

(* The file keeps its place on disk for those who have it open, whatever   *)
(* becomes of its name; an append goes to the end, a write to its offset.  *)
Fill(r) ==
    LET o == op[r]
        n == IF o.does = "append" THEN Len(disk[o.ino]) + 1 ELSE o.done + 1
        last == o.does = "append" \/ o.done + 1 = Chunks
    IN  /\ At(r, "fill")
        /\ disk' = [disk EXCEPT ![o.ino] = Overwrite(@, n, o.k)]
        /\ op' = IF last THEN [op EXCEPT ![r] = Free] ELSE [op EXCEPT ![r].done = @ + 1]
        /\ due' = IF last /\ ~o.met THEN due \cup {<<o.file, o.k>>} ELSE due
        /\ UNCHANGED <<dir, sub, calls, clashed, told, mishaps>>

-----------------------------------------------------------------------------
(* Edit: read, replace, write a temporary file, rename it.                 *)

ReadToEdit(r, all) ==
    LET o    == op[r]
        text == Content(o.file)
    IN  /\ At(r, "read")
        /\ IF dir[Itself(o)] = None \/ Matches(text, o.seek) = 0
                \/ (~all /\ Matches(text, o.seek) > 1)
             THEN Fails(r)
             ELSE \E stamp \in Stamps :
                    op' = [op EXCEPT ![r].at = "temp", ![r].stamp = stamp,
                                     ![r].text = Replaced(text, o.seek, o.k)]
        /\ UNCHANGED <<dir, sub, disk, calls, due, clashed, told, mishaps>>

OpenTemp(r) ==
    LET o == op[r]
        i == IF dir[Target(o)] = None THEN Unused ELSE dir[Target(o)]
    IN  /\ At(r, "temp")
        /\ IF o.file = "g" /\ ~sub
             THEN Fails(r) /\ UNCHANGED <<dir, disk, clashed>>
             ELSE /\ dir' = [dir EXCEPT ![Target(o)] = i]
                  /\ disk' = [disk EXCEPT ![i] = <<>>]
                  /\ clashed' = (clashed \/ \E q \in Slots : /\ op[q].at \in {"put", "rename"}
                                                           /\ Target(op[q]) = Target(o))
                  /\ op' = Observed([op EXCEPT ![r].at = "put", ![r].ino = i], dir', sub)
        /\ UNCHANGED <<sub, calls, due, told, mishaps>>

WriteTemp(r) ==
    LET o == op[r]
        n == o.done + 1
    IN  /\ At(r, "put")
        /\ disk' = [disk EXCEPT ![o.ino] = Overwrite(@, n, o.text[n])]
        /\ op' = [op EXCEPT ![r].done = n, ![r].at = IF n = Len(o.text) THEN "rename" ELSE @]
        /\ UNCHANGED <<dir, sub, calls, due, clashed, told, mishaps>>

Rename(r) ==
    LET o == op[r]
        t == Target(o)
    IN  /\ At(r, "rename")
        /\ IF dir[t] = None
             THEN Fails(r) /\ UNCHANGED <<dir, due>>
             ELSE /\ dir' = IF t = Itself(o) THEN dir
                              ELSE [dir EXCEPT ![Itself(o)] = dir[t], ![t] = None]
                  /\ op' = Observed([op EXCEPT ![r] = Free], dir', sub)
                  /\ due' = IF o.met THEN due ELSE due \cup {<<o.file, o.k>>}
        /\ UNCHANGED <<sub, disk, calls, clashed, told, mishaps>>

-----------------------------------------------------------------------------
(* Walks: ls and find list, grep reads what it meets.  A directory that    *)
(* has gone fails ls and find; grep passes over it.                        *)

OpenDirectory(r) ==
    /\ At(r, "open")
    /\ op' = [op EXCEPT ![r].at = "walk", ![r].todo = <<Entries(dir, sub, "top")>>]
    /\ UNCHANGED <<dir, sub, disk, calls, due, clashed, told, mishaps>>

Visit(r) ==
    LET o   == op[r]
        top == Head(o.todo)
    IN  /\ At(r, "walk") /\ o.todo # <<>> /\ top # {} /\ ~Full(o)
        /\ \E n \in top :
             LET met   == [o EXCEPT !.todo  = <<top \ {n}>> \o Tail(@),
                                    !.found = IF Wanted(o, n) THEN @ \cup {n} ELSE @]
                 below == [met EXCEPT !.todo = <<Entries(dir, sub, "sub")>> \o @]
             IN  IF n # Sub
                   THEN op' = [op EXCEPT ![r] = met] /\ UNCHANGED told
                   ELSE IF sub \/ o.does = "grep"
                     THEN op' = [op EXCEPT ![r] = below] /\ UNCHANGED told
                     ELSE Fails(r) /\ told' = Answer(met, FALSE)
        /\ UNCHANGED <<dir, sub, disk, calls, due, clashed, mishaps>>

Leave(r) ==
    /\ At(r, "walk") /\ op[r].todo # <<>>
    /\ Head(op[r].todo) = {} \/ Full(op[r])
    /\ op' = [op EXCEPT ![r].todo = Tail(@)]
    /\ UNCHANGED <<dir, sub, disk, calls, due, clashed, told, mishaps>>

AnswerWalk(r) ==
    /\ At(r, "walk") /\ op[r].todo = <<>>
    /\ told' = Answer(op[r], TRUE)
    /\ Fails(r)
    /\ UNCHANGED <<dir, sub, disk, calls, due, clashed, mishaps>>

-----------------------------------------------------------------------------
(* The connection of a request breaks, and it is sent again: while the     *)
(* server is still at work on the first, or when that is done and others   *)
(* have changed the file since.  The second is not repeated.               *)
CallInVain(r, does, f, x) ==
    /\ Ask(r, does, f, x)
    /\ mishaps < MaxMishaps
    /\ mishaps' = mishaps + 1
    /\ broken' = broken \cup {[does |-> does, k |-> calls + 1, file |-> f, seek |-> x]}

SendAgain(r, b) ==
    /\ Begin(r, [Free EXCEPT !.does = b.does, !.k = b.k, !.file = b.file, !.seek = b.seek,
                             !.at = IF b.does = "edit" THEN "read" ELSE "mkdir"])
    /\ broken' = broken \ {b}
    /\ due' = StillDue(b.does, b.file, b.seek)
    /\ UNCHANGED <<dir, sub, disk, calls, clashed, told, mishaps>>

(* A command of container_bash removes the directory.                      *)
CommandRemoves ==
    /\ sub /\ mishaps < MaxMishaps
    /\ mishaps' = mishaps + 1
    /\ sub' = FALSE
    /\ dir' = [n \in Names |-> IF n[1] = "g" THEN None ELSE dir[n]]
    /\ due' = {m \in due : m[1] = "f"}
    /\ op' = Observed([r \in Slots |-> IF op[r].does \in Changes /\ op[r].file = "g"
                        THEN [op[r] EXCEPT !.met = TRUE] ELSE op[r]], dir', sub')
    /\ UNCHANGED <<disk, calls, clashed, told>>

-----------------------------------------------------------------------------
Init ==
    /\ sub \in BOOLEAN
    /\ dir = [n \in Names |-> IF n = <<"f", 0>> THEN 1
                              ELSE IF sub /\ n = <<"g", 0>> THEN 2 ELSE None]
    /\ disk = [i \in Inodes |-> IF \E n \in Names : dir[n] = i THEN <<Old, Old>> ELSE <<>>]
    /\ op = [r \in Slots |-> Free]
    /\ calls = 0
    /\ broken = {}
    /\ due = {<<f, Old>> : f \in IF sub THEN Files ELSE {"f"}}
    /\ clashed = FALSE
    /\ told = Answer(Free, FALSE)
    /\ mishaps = 0

GoesOn(r) ==
    \/ Mkdir(r)
    \/ OpenToWrite(r)
    \/ Fill(r)
    \/ \E all \in BOOLEAN : ReadToEdit(r, all)
    \/ OpenTemp(r)
    \/ WriteTemp(r)
    \/ Rename(r)
    \/ OpenDirectory(r)
    \/ Visit(r)
    \/ Leave(r)
    \/ AnswerWalk(r)

(* What an edit may look for.                                              *)
Sought(does) == IF does = "edit" THEN (1..calls) \cup {Old} ELSE {Old}

Next ==
    \/ \E r \in Slots, does \in Changes, f \in Files : \E x \in Sought(does) :
         Call(r, does, f, x) \/ CallInVain(r, does, f, x)
    \/ \E r \in Slots, does \in Walks : Call(r, does, "f", Old)
    \/ \E r \in Slots, b \in broken : SendAgain(r, b)
    \/ (\E r \in Slots : GoesOn(r)) /\ UNCHANGED broken
    \/ CommandRemoves /\ UNCHANGED broken

Spec == Init /\ [][Next]_vars

-----------------------------------------------------------------------------
Doings == {"nothing"} \cup Changes \cup Walks
Places == {"free", "mkdir", "create", "fill", "read", "temp", "put", "rename", "open", "walk"}
Seen   == Names \cup {Sub}

Operations ==
    [does : Doings, at : Places, k : Nat, file : Files, seek : Nat, ino : {None} \cup Inodes,
     text : Seq(Nat), done : Nat, stamp : {0} \cup Stamps, met : BOOLEAN,
     todo : Seq(SUBSET Seen), found : SUBSET Seen, stayed : SUBSET Seen, ever : SUBSET Seen]

Requests == [does : Changes, k : Nat, file : Files, seek : Nat]

(* The type of every variable.                                             *)
TypeOK ==
    /\ dir \in [Names -> {None} \cup Inodes]
    /\ sub \in BOOLEAN
    /\ disk \in [Inodes -> Seq(Nat)]
    /\ op \in [Slots -> Operations]
    /\ calls \in 0..MaxCalls
    /\ broken \in SUBSET Requests
    /\ due \in SUBSET (Files \X Nat)
    /\ clashed \in BOOLEAN
    /\ told \in [ok : BOOLEAN, full : BOOLEAN, does : Doings, found : SUBSET Seen,
                 stayed : SUBSET Seen, ever : SUBSET Seen]
    /\ mishaps \in 0..MaxMishaps

(* An edit is atomic: the content it writes is not seen at the name of the *)
(* file before it is complete, unless two edits of the file wrote their    *)
(* temporary files in the same millisecond.                                *)
EditsAreAtomic ==
    ~clashed => \A r \in Slots : At(r, "put") => dir[Itself(op[r])] # op[r].ino

(* What a change has written stays in the file until a later request       *)
(* replaces it, the repetition of an earlier one included, unless the      *)
(* change met another of the same file or its own repetition, or two edits *)
(* have shared a temporary file.                                           *)
ChangesStick ==
    ~clashed => \A m \in due : m[2] \in Marks(Content(m[1]))

(* A walk that was not cut short returns every entry of its kind that was  *)
(* there from its beginning to its end, and none that never was.           *)
WalksAreComplete ==
    (told.ok /\ ~told.full) =>
        /\ told.found \subseteq told.ever
        /\ told.does = "ls" => told.stayed \subseteq told.found
        /\ told.does = "find" => told.stayed \ {Sub} \subseteq told.found

=============================================================================
