-------------------------------- MODULE Lsof --------------------------------
(***************************************************************************)
(* hw1, the lister of open files, and the processes that it lists.         *)
(*                                                                         *)
(* For each process the program makes many calls, each on another file of  *)
(* /proc/<pid>, and collects rows; the rows are printed at the end, or     *)
(* dropped if one of some calls fails.  Meanwhile the processes open and   *)
(* close files and end, between any two calls.  Processes do not depend on *)
(* each other: only the one that is being looked at is followed, from      *)
(* whatever state it is found in.                                          *)
(*                                                                         *)
(* A regular expression is the set of what it is found in.  A pid is not   *)
(* used again while the program runs, and a process neither changes its    *)
(* cwd, root and exe nor maps a file while it is looked at.                *)
(***************************************************************************)
EXTENDS Integers, Sequences, FiniteSets, SequencesExt

CONSTANTS
    Pid, Fd,
    File, Node,     \* the files; their i-node numbers, as a function
    Unlinked,       \* the files that have been deleted
    Denied,         \* the processes whose files hw1 must not see
    Link,           \* where cwd, root and exe of a process point; NoFile for
                    \* the exe of a kernel thread
    Maps,           \* the files in its maps, a sequence
    Open,           \* what a descriptor can be: [file, mode]
    Limit,          \* the descriptors that hw1 may use
    Type, Command,  \* the types of the files, the commands of the processes
    CommandLines,   \* the options that may be given
    Found,          \* what each argument, a regular expression, is found in
    Malformed       \* the arguments that are none

Links == {"cwd", "root", "exe"}
Modes == {"u", "r", "w", "none"}
Blank == "blank"    \* an empty string
NoFile == "none"
NoNode == 0
valid_types == {"REG", "CHR", "DIR", "FIFO", "SOCK", "unknown"}

ASSUME LsofAssumption ==
    \* hw1 is a process itself.
    /\ Pid \subseteq Nat /\ Pid # {} /\ IsFiniteSet(Pid) /\ Denied \subseteq Pid
    \* The names of descriptors are numbers, those of files are paths.
    /\ IsFiniteSet(Fd) /\ Fd \cap (Links \cup {"mem", "DEL", "NOFD", Blank}) = {}
    /\ NoFile \notin File
    /\ Node \in [File -> Nat \ {0}] /\ Unlinked \subseteq File
    /\ Link \in [Pid -> [Links -> File \cup {NoFile}]] /\ Maps \in [Pid -> Seq(File)]
    /\ Open \subseteq [file : File, mode : Modes]
    /\ Limit \in Nat \ {0}
    /\ Type \in [File -> valid_types \cup {"a_inode"}] /\ Command \in [Pid -> STRING]
    /\ CommandLines \subseteq Seq([opt : {"c", "t", "f", "?"}, arg : DOMAIN Found])
    /\ \A a \in DOMAIN Found : Found[a] \subseteq STRING
    /\ Malformed \subseteq DOMAIN Found /\ \A a \in Malformed : Found[a] = {}
    /\ \A t \in valid_types \cap DOMAIN Found : Found[t] = {t}

VARIABLES
    options,    \* of the command line
    optind,     \* the option that is read next
    filter,     \* the arguments of each option
    todo,       \* the processes that /proc has yet to yield
    proc,       \* the process that is being looked at
    life,       \* running, zombie or gone
    table,      \* its descriptors
    pc,
    info,       \* the file_info that is being filled in
    rows,       \* proc->file_info
    entries,    \* lines of maps, or entries of fd, that are yet to be read
    leaked,     \* directories that are never closed
    printed,    \* the rows that were printed of proc
    had,        \* history: what each descriptor of proc has been, as a set
                \* that is empty once it has changed,
    seen        \* and what it was while hw1 made the calls for its row

world == <<life, table>>
arguments == <<options, optind, filter>>
vars == <<life, table, arguments, todo, proc, pc, info, rows, entries, leaked,
          printed, had, seen>>

Closed == [file |-> "closed", mode |-> "closed"]

\* A file_info: the name is that of a file, or the path in /proc.
FileInfo == [fd : Links \cup Fd \cup {"mem", "DEL", "NOFD"},
             mode : {Blank, "u", "r", "w"}, name : File \cup {NoFile}, node : Nat,
             type : valid_types \cup {"a_inode", Blank}, denied : BOOLEAN]
Row(fd) == [fd |-> fd, mode |-> Blank, name |-> NoFile, node |-> NoNode,
            type |-> Blank, denied |-> FALSE]

Init ==
    /\ life = "gone" /\ table = [d \in Fd |-> Closed]
    /\ todo = Pid /\ proc = (CHOOSE p \in Pid : TRUE) /\ pc = "parse"
    /\ options \in CommandLines
    /\ optind = 1 /\ filter = [o \in {"c", "t", "f"} |-> <<>>]
    /\ info = Row(Blank) /\ rows = <<>> /\ entries = <<>>
    /\ leaked = 0 /\ printed = <<>>
    /\ had = [d \in Fd |-> {}] /\ seen = [d \in Fd |-> {}]

-----------------------------------------------------------------------------
(* The process that is looked at *)

Watched == pc \notin {"parse", "next", "done", "failed"} /\ life = "running"

\* The calls for the row of a descriptor are being made.
Looking(d) == info.fd = d /\ pc \in {"readlink", "lstat", "inode", "type"}

Becomes(now) ==
    /\ table' = now
    /\ had' = [d \in Fd |-> had[d] \cap {now[d]}]
    /\ seen' = [d \in Fd |-> IF Looking(d) THEN seen[d] \cup {now[d]} ELSE seen[d]]
    /\ UNCHANGED <<arguments, todo, proc, pc, info, rows, entries, leaked, printed>>

Opens(d, o) ==
    /\ Watched /\ table[d] = Closed
    /\ Becomes([table EXCEPT ![d] = o])
    /\ UNCHANGED life

Closes(d) ==
    /\ Watched /\ table[d] # Closed
    /\ Becomes([table EXCEPT ![d] = Closed])
    /\ UNCHANGED life

Ends ==
    /\ Watched
    /\ life' = "zombie"
    /\ Becomes([d \in Fd |-> Closed])

Reaped ==
    /\ life = "zombie"
    /\ life' = "gone"
    /\ UNCHANGED <<table, arguments, todo, proc, pc, info, rows, entries, leaked, printed, had, seen>>

Process ==
    \/ Ends \/ Reaped
    \/ \E d \in Fd : Closes(d) \/ \E o \in Open : Opens(d, o)

-----------------------------------------------------------------------------
(* /proc/<pid>, as the calls of hw1 see it *)

\* Whether the link itself is there.
Exists(l) == IF l \in Links THEN life # "gone" ELSE table[l] # Closed

\* The file that a link leads to: NoFile if it leads nowhere.
Target(l) ==
    IF proc \in Denied \/ life # "running" THEN NoFile
    ELSE IF l \in Links THEN Link[proc][l]
    ELSE IF table[l] # Closed THEN table[l].file ELSE NoFile

\* What stat says of it.
NodeOf(f) == IF f = NoFile THEN NoNode ELSE Node[f]
RegularByDefault(f) == IF f = NoFile THEN "REG" ELSE Type[f]
TypeOf(f) == IF f = NoFile THEN "unknown" ELSE Type[f]

AnyError == Target(info.fd) = NoFile
EACCES == proc \in Denied /\ life # "gone"

-----------------------------------------------------------------------------
(* The filters *)

\* parse_filter gives up at an option or a type that it does not know.
Invalid(a) == a.opt = "?" \/ (a.opt = "t" /\ a.arg \notin valid_types)

\* The loop over the options.
ParseFilter ==
    /\ pc = "parse"
    /\ UNCHANGED <<world, options, todo, proc, info, rows, entries, leaked, printed, had, seen>>
    /\ \/ /\ optind > Len(options) /\ pc' = "next"
          /\ UNCHANGED <<optind, filter>>
       \/ /\ optind <= Len(options) /\ Invalid(options[optind]) /\ pc' = "failed"
          /\ UNCHANGED <<optind, filter>>
       \/ /\ optind <= Len(options) /\ ~Invalid(options[optind]) /\ pc' = "parse"
          /\ optind' = optind + 1
          /\ filter' = [filter EXCEPT ![options[optind].opt] =
                            Append(@, options[optind].arg)]

\* One match is enough, and no filter lets everything pass.
valid_param(value, regs) ==
    regs = <<>> \/ \E i \in DOMAIN regs : value \in Found[regs[i]]

\* The expressions are compiled one by one until one is found.
Throws(value, regs) ==
    \E i \in DOMAIN regs :
        regs[i] \in Malformed /\ \A j \in 1..(i - 1) : value \notin Found[regs[j]]

EitherFinfo(r) == valid_param(r.type, filter["t"]) \/ valid_param(r.name, filter["f"])
valid_finfo(r) == valid_param(r.type, filter["t"]) /\ valid_param(r.name, filter["f"])
ThrowsFinfo(r) == valid_param(r.type, filter["t"]) /\ Throws(r.name, filter["f"])

-----------------------------------------------------------------------------
(* traverse_proc and what it calls *)

\* traverse_proc is left: its variables are gone, and the process is not
\* followed any longer.
Leave(next) ==
    /\ pc' = next
    /\ info' = Row(Blank) /\ rows' = <<>> /\ entries' = <<>>
    /\ life' = "gone" /\ table' = [d \in Fd |-> Closed]
    /\ had' = [d \in Fd |-> {}] /\ seen' = [d \in Fd |-> {}]
Return == Leave("next") /\ UNCHANGED printed

\* Nobody catches the exception of a malformed expression: abort loses what
\* stdout still buffers, of this process and of those before it.
Abort == Leave("failed") /\ \E n \in 0..Len(printed) : printed' = SubSeq(printed, 1, n)

\* readdir in main.
NextProcess ==
    /\ pc = "next" /\ todo # {} /\ pc' = "command"
    /\ proc' = CHOOSE p \in todo : \A q \in todo : p <= q
    /\ todo' = todo \ {proc'}
    /\ life' \in {"running", "zombie", "gone"}
    /\ table' \in [Fd -> IF life' = "running" THEN Open \cup {Closed} ELSE {Closed}]
    /\ had' = [d \in Fd |-> {table'[d]}] /\ seen' = [d \in Fd |-> {}]
    /\ printed' = <<>>
    /\ UNCHANGED <<arguments, info, rows, entries, leaked>>

EndOfProc ==
    /\ pc = "next" /\ todo = {} /\ pc' = "done"
    /\ UNCHANGED <<world, arguments, todo, proc, info, rows, entries, leaked, printed, had, seen>>

\* getcommand opens a file.  The later opens of the same process need no more
\* descriptors than this one.
AlwaysFree == TRUE
DescriptorFree == leaked < Limit

GetCommand ==
    /\ pc = "command"
    /\ IF life # "gone" /\ DescriptorFree
       THEN pc' = "user" /\ UNCHANGED <<world, info, rows, entries, printed, had, seen>>
       ELSE Return
    /\ UNCHANGED <<arguments, todo, proc, leaked>>

\* getusername, and the filter on commands.
GetUserName ==
    /\ pc = "user"
    /\ LET pattern == filter["c"] IN
       \/ life # "gone" /\ Throws(Command[proc], pattern) /\ Abort
       \/ (life = "gone" \/ ~valid_param(Command[proc], pattern)) /\ Return
       \/ /\ life # "gone" /\ valid_param(Command[proc], pattern)
          /\ pc' = "readlink" /\ info' = Row("cwd")
          /\ UNCHANGED <<world, rows, entries, printed, had, seen>>
    /\ UNCHANGED <<arguments, todo, proc, leaked>>

\* getfileinfo, on the link that info is about, is the next four actions.
ReadLink ==
    /\ pc = "readlink"
    /\ pc' = IF Target(info.fd) # NoFile \/ EACCES THEN "inode" ELSE "lstat"
    /\ info' = [info EXCEPT !.name = Target(info.fd), !.denied = EACCES]
    /\ UNCHANGED <<world, arguments, todo, proc, rows, entries, leaked, printed, had, seen>>

\* Nothing of the process is printed if the link is gone, and the directory
\* of a descriptor stays open.
LStat ==
    /\ pc = "lstat"
    /\ IF Exists(info.fd)
       THEN /\ pc' = "inode"
            /\ UNCHANGED <<world, info, rows, entries, leaked, printed, had, seen>>
       ELSE Return /\ leaked' = IF info.fd \in Fd THEN leaked + 1 ELSE leaked
    /\ UNCHANGED <<arguments, todo, proc>>

GetINode ==
    /\ pc = "inode" /\ pc' = "type"
    /\ info' = [info EXCEPT !.node = NodeOf(Target(info.fd))]
    /\ UNCHANGED <<world, arguments, todo, proc, rows, entries, leaked, printed, had, seen>>

GetType ==
    /\ pc = "type"
    /\ rows' = Append(rows, [info EXCEPT !.type = TypeOf(Target(info.fd))])
    /\ \/ info.fd = "cwd" /\ pc' = "readlink" /\ info' = Row("root")
       \/ info.fd = "root" /\ pc' = "readlink" /\ info' = Row("exe")
       \/ info.fd = "exe" /\ pc' = "openmaps" /\ UNCHANGED info
       \/ info.fd \in Fd /\ pc' = "readdir" /\ UNCHANGED info
    /\ UNCHANGED <<world, arguments, todo, proc, entries, leaked, printed, had, seen>>

OpenMaps ==
    /\ pc = "openmaps" /\ pc' = "maps"
    /\ entries' = IF proc \notin Denied /\ life = "running" THEN Maps[proc] ELSE <<>>
    /\ UNCHANGED <<world, arguments, todo, proc, info, rows, leaked, printed, had, seen>>

\* A line of maps counts if its i-node number is new.
AnyNode(n) == TRUE
NewNode(n) == \A i \in DOMAIN rows : rows[i].node # n

NoRest == entries
Rest == Tail(entries)

ParseMaps ==
    /\ pc = "maps" /\ entries # <<>> /\ pc' = "maps"
    /\ LET f == Head(entries)
           row == [Row(IF f \in Unlinked THEN "DEL" ELSE "mem")
                     EXCEPT !.name = f, !.node = Node[f], !.type = "REG"]
       IN  rows' = IF NewNode(Node[f]) THEN Append(rows, row) ELSE rows
    /\ entries' = Rest
    /\ UNCHANGED <<world, arguments, todo, proc, info, leaked, printed, had, seen>>

\* The maps of a process that has ended break off anywhere.
EndOfMaps ==
    /\ pc = "maps" /\ pc' = "opendir"
    /\ entries = <<>> \/ life # "running"
    /\ entries' = <<>>
    /\ UNCHANGED <<world, arguments, todo, proc, info, rows, leaked, printed, had, seen>>

\* opendir and the first readdir, which fetches the entries.
OpenDir ==
    /\ pc = "opendir"
    /\ IF proc \in Denied \/ life = "gone"
       THEN /\ pc' = "dump"
            /\ rows' = Append(rows, [Row("NOFD") EXCEPT !.denied = TRUE])
            /\ UNCHANGED entries
       ELSE /\ pc' = "readdir"
            /\ entries' = SetToSeq({d \in Fd : table[d] # Closed})
            /\ UNCHANGED rows
    /\ UNCHANGED <<world, arguments, todo, proc, info, leaked, printed, had, seen>>

ReadDir ==
    /\ pc = "readdir" /\ entries # <<>> /\ pc' = "mode"
    /\ info' = Row(Head(entries))
    /\ entries' = Tail(entries)
    /\ UNCHANGED <<world, arguments, todo, proc, rows, leaked, printed, had, seen>>

\* A descriptor that is gone, or has no mode, is left out.
Break == "dump"
Continue == "readdir"

GetMode ==
    /\ pc = "mode"
    /\ LET mode == table[info.fd].mode IN
          IF mode \in {"u", "r", "w"}
          THEN /\ pc' = "readlink" /\ info' = [info EXCEPT !.mode = mode]
               /\ seen' = [seen EXCEPT ![info.fd] = @ \cup {table[info.fd]}]
          ELSE pc' = Continue /\ UNCHANGED <<info, seen>>
    /\ UNCHANGED <<world, arguments, todo, proc, rows, entries, leaked, printed, had>>

EndOfDir ==
    /\ pc = "readdir" /\ entries = <<>> /\ pc' = "dump"
    /\ UNCHANGED <<world, arguments, todo, proc, info, rows, entries, leaked, printed, had, seen>>

\* dump_info prints the rows that the filters let pass, one by one.
Dump ==
    /\ pc = "dump" /\ rows # <<>>
    /\ \/ ThrowsFinfo(Head(rows)) /\ Abort
       \/ /\ ~ThrowsFinfo(Head(rows)) /\ rows' = Tail(rows)
          /\ printed' = IF valid_finfo(Head(rows)) THEN Append(printed, Head(rows))
                        ELSE printed
          /\ UNCHANGED <<world, pc, info, entries, had, seen>>
    /\ UNCHANGED <<arguments, todo, proc, leaked>>

EndOfDump ==
    /\ pc = "dump" /\ rows = <<>> /\ Return
    /\ UNCHANGED <<arguments, todo, proc, leaked>>

Scan ==
    \/ ParseFilter \/ NextProcess \/ EndOfProc \/ GetCommand \/ GetUserName
    \/ ReadLink \/ LStat \/ GetINode \/ GetType
    \/ OpenMaps \/ ParseMaps \/ EndOfMaps
    \/ OpenDir \/ ReadDir \/ GetMode \/ EndOfDir \/ Dump \/ EndOfDump

Finished == pc \in {"done", "failed"} /\ UNCHANGED vars

Next == Scan \/ Process \/ Finished

\* hw1 goes on as long as it can; the processes do as they like.
Spec == Init /\ [][Next]_vars /\ WF_vars(Scan)

-----------------------------------------------------------------------------
(* Properties *)

\* The type of the state; hw1 never has more descriptors than it may.
TypeOK ==
    /\ life \in {"running", "zombie", "gone"}
    /\ table \in [Fd -> Open \cup {Closed}]
    /\ todo \subseteq Pid /\ proc \in Pid
    /\ rows \in Seq(FileInfo)
    /\ entries \in Seq(File \cup Fd)
    /\ optind \in 1..Len(options) + 1
    /\ filter \in [{"c", "t", "f"} -> Seq(DOMAIN Found)]
    /\ leaked \in 0..Limit
    /\ Len(printed) <= 4 + Len(Maps[proc]) + Cardinality(Fd)
    /\ had \in [Fd -> SUBSET (Open \cup {Closed})]
    /\ seen \in [Fd -> SUBSET (Open \cup {Closed})]

\* What hw1 promises to print of a process that stays as it is.
LinkRow(l) ==
    LET f == Link[proc][l] IN
    [Row(l) EXCEPT !.name = f, !.node = NodeOf(f), !.type = TypeOf(f)]
FdRow(d, o) ==
    [Row(d) EXCEPT !.mode = o.mode, !.name = o.file, !.node = Node[o.file],
                   !.type = Type[o.file]]
Readable(o) == o.mode \in {"u", "r", "w"}

LinkRows == {LinkRow(l) : l \in Links}
MapRow(i) ==
    LET f == Maps[proc][i] IN
    [Row(IF f \in Unlinked THEN "DEL" ELSE "mem")
       EXCEPT !.name = f, !.node = Node[f], !.type = "REG"]
\* The first line with its i-node number, which is not that of a link.  The
\* code does not compare the names, though HW1/README.md:71 does.
NewMap(i) ==
    LET n == Node[Maps[proc][i]] IN
    /\ \A j \in 1..(i - 1) : Node[Maps[proc][j]] # n
    /\ \A l \in Links : NodeOf(Link[proc][l]) # n
MapRows == {MapRow(i) : i \in {j \in DOMAIN Maps[proc] : NewMap(j)}}
FdRows == {FdRow(d, table[d]) : d \in {e \in Fd : Readable(table[e])}}
DeniedRows == {[Row(fd) EXCEPT !.denied = TRUE,
                               !.type = IF fd = "NOFD" THEN Blank ELSE "unknown"] :
               fd \in Links \cup {"NOFD"}}

\* A filter asks for what its expression is found in; different filters must
\* all be met, and one of those of the same kind.
Asked(opt, value) ==
    LET of == {a \in ToSet(options) : a.opt = opt}
    IN  of # {} => \E a \in of : value \in Found[a.arg]
Wanted(r) == Asked("c", Command[proc]) /\ Asked("t", r.type) /\ Asked("f", r.name)

Section == {r \in IF proc \in Denied THEN DeniedRows
                  ELSE LinkRows \cup MapRows \cup FdRows : Wanted(r)}

Leaving == pc \notin {"parse", "next"} /\ pc' = "next"
Untouched == life = "running" /\ \A d \in Fd : had[d] # {}

\* A process that neither ends nor opens or closes anything while it is looked
\* at is printed, whatever the others do, and as if it had been looked at in a
\* single moment: each open file that the filters ask for once, with its own
\* name, node and mode, and nothing else.
UntouchedExact ==
    [][Leaving /\ Untouched /\ DescriptorFree =>
         ToSet(printed') = Section /\ Len(printed') = Cardinality(Section)]_vars

\* If a process changes while it is looked at and is printed nevertheless, then
\* a descriptor that it has left alone has its row, and only this row.
OthersExact ==
    [][Leaving /\ pc = "dump" =>
         \A d \in Fd, o \in Open : had[d] = {o} /\ Readable(o) /\ proc \notin Denied =>
            LET about == {i \in DOMAIN printed' : printed'[i].fd = d} IN
            IF Wanted(FdRow(d, o))
            THEN \E i \in about : about = {i} /\ printed'[i] = FdRow(d, o)
            ELSE about = {}]_vars

\* What a row may show of a descriptor that is o, or closed.
Shown(d, o) == IF o = Closed THEN [Row(d) EXCEPT !.type = "unknown"] ELSE FdRow(d, o)

\* Nothing is made up: the mode, the name, the i-node number and the type that
\* a row shows are those that its descriptor had, or the blanks that stand for
\* one that was closed, between the first call for this very row and the last.
\* So a row mixes files only if they were exchanged just then, and one whose
\* descriptor stayed as it was just then is FdRow.  A link is denied only if
\* the process is, its descriptors only if it is or has gone.
WasTrue(r) ==
    /\ r.fd \in Fd =>
         /\ r.mode \in {o.mode : o \in seen[r.fd] \ {Closed}}
         /\ r.name \in {Shown(r.fd, o).name : o \in seen[r.fd]}
         /\ r.node \in {Shown(r.fd, o).node : o \in seen[r.fd]}
         /\ r.type \in {Shown(r.fd, o).type : o \in seen[r.fd]}
    /\ r.denied => proc \in Denied \/ (r.fd = "NOFD" /\ life = "gone")
RowsWereTrue == [][Leaving => \A i \in DOMAIN printed' : WasTrue(printed'[i])]_vars

\* hw1 comes to an end, though processes go on opening files for ever: to the
\* end of /proc, unless there is something wrong with the options.
Wrong == \E i \in DOMAIN options : Invalid(options[i]) \/ options[i].arg \in Malformed
Finishes == <>(pc = "done" \/ (pc = "failed" /\ Wrong))

\* "for each file opened by a running process" (HW1/README.md:47): a process
\* that runs all the time is printed, if no filter is given.
RunningListed ==
    [][Leaving /\ life = "running" /\ DescriptorFree /\ options = <<>>
         => printed' # <<>>]_vars
=============================================================================
