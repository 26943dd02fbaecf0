----------------------------- MODULE LsofProofs -----------------------------
(* What hw1 prints, for any number of processes, descriptors and mapped     *)
(* files, any options, and whatever the processes do meanwhile.             *)
EXTENDS Lsof, WellFoundedInduction, FiniteSetTheorems, SequenceTheorems, TLAPS

(***************************************************************************)
(* Shape says which variables are in use at which point of traverse_proc,  *)
(* and Counted that there are no more rows than links, lines of maps and   *)
(* descriptors, those that are still to come included.                     *)
(***************************************************************************)
Idle == {"parse", "next", "done", "failed"}
AtFile == {"readlink", "lstat", "inode", "type"}
Partial == [fd : Links \cup Fd \cup {Blank}, mode : {Blank, "u", "r", "w"},
            name : File \cup {NoFile}, node : Nat, type : {Blank}, denied : BOOLEAN]

Shape ==
    /\ options \in CommandLines
    /\ pc \in Idle \cup AtFile \cup {"command", "user", "openmaps", "maps", "opendir",
                                     "readdir", "mode", "dump"}
    /\ info \in Partial
    /\ pc \in AtFile => info.fd \in Links \cup Fd
    /\ pc = "mode" => info.fd \in Fd
    /\ pc = "maps" => entries \in Seq(File)
    /\ pc \in {"readdir", "mode"} \cup AtFile => entries \in Seq(Fd)
    /\ pc \notin {"maps", "readdir", "mode"} \cup AtFile => entries = <<>>
    /\ pc \in AtFile /\ info.fd \in Links => entries = <<>>
    /\ pc \in Idle \cup {"command", "user"} => rows = <<>>
    /\ printed \in Seq(FileInfo)
    /\ pc \notin Idle \cup {"dump"} => printed = <<>>
    /\ pc \notin Idle \cup {"command"} => leaked < Limit
    /\ life # "running" => table = [d \in Fd |-> Closed]

Counted ==
    LET maps == Len(Maps[proc])
        fds == Cardinality(Fd)
    IN  /\ pc \in AtFile /\ info.fd = "cwd" => Len(rows) = 0
        /\ pc \in AtFile /\ info.fd = "root" => Len(rows) = 1
        /\ pc \in AtFile /\ info.fd = "exe" => Len(rows) = 2
        /\ pc = "openmaps" => Len(rows) = 3
        /\ pc = "maps" => Len(rows) + Len(entries) <= 3 + maps
        /\ pc = "opendir" => Len(rows) <= 3 + maps
        /\ pc = "readdir" => Len(rows) + Len(entries) <= 3 + maps + fds
        /\ pc = "mode" \/ (pc \in AtFile /\ info.fd \in Fd) =>
             Len(rows) + Len(entries) + 1 <= 3 + maps + fds
        /\ pc = "dump" => Len(rows) + Len(printed) <= 4 + maps + fds

TypeInv == TypeOK /\ Shape /\ Counted

-----------------------------------------------------------------------------
(* What the operators of the model return *)

LEMMA LeastExists ==
    ASSUME NEW S \in SUBSET Nat, S # {}
    PROVE  \E x \in S : \A y \in S : x <= y
<1>1. PICK x \in S : \A y \in S : <<y, x>> \notin OpToRel(<, Nat)
  BY NatLessThanWellFounded, WFMin
<1>2. ASSUME NEW y \in S PROVE x <= y
  <2>1. <<y, x>> \notin {ss \in Nat \X Nat : ss[1] < ss[2]}
    BY <1>1 DEF OpToRel
  <2>2. <<y, x>> \in Nat \X Nat
    OBVIOUS
  <2>. QED BY <2>1, <2>2
<1>. QED BY <1>2

\* Main finds the processes in the order of their numbers.
LEMMA LeastOf ==
    ASSUME NEW S \in SUBSET Nat, S # {}
    PROVE  (CHOOSE p \in S : \A q \in S : p <= q) \in S
BY LeastExists

\* The entries of a directory come once each.
LEMMA SetToSeqFacts ==
    ASSUME NEW S, IsFiniteSet(S)
    PROVE  /\ SetToSeq(S) \in Seq(S) /\ Len(SetToSeq(S)) = Cardinality(S)
           /\ IsInjective(SetToSeq(S))
           /\ \A x \in S : \E i \in DOMAIN SetToSeq(S) : SetToSeq(S)[i] = x
<1>1. Cardinality(S) \in Nat /\ ExistsBijection(1..Cardinality(S), S)
  BY FS_CardinalityType
<1>2. PICK g \in [1..Cardinality(S) -> S] : IsInjective(g)
  BY <1>1 DEF ExistsBijection, Bijection, Injection
<1>3. SetToSeq(S) \in [1..Cardinality(S) -> S] /\ IsInjective(SetToSeq(S))
  BY <1>2 DEF SetToSeq
<1>4. SetToSeq(S) \in Injection(1..Cardinality(S), S)
  BY <1>3 DEF Injection
<1>5. Cardinality(1..Cardinality(S)) = Cardinality(S)
  BY <1>1, FS_Interval
<1>6. SetToSeq(S) \in Surjection(1..Cardinality(S), S)
  BY <1>4, <1>5, FS_Injection
<1>. QED BY <1>1, <1>3, <1>6 DEF Surjection

LEMMA FdFacts ==
    /\ IsFiniteSet(Fd) /\ Cardinality(Fd) \in Nat
    /\ \A d \in Fd : d \notin Links /\ d \notin {Blank, "mem", "DEL", "NOFD"}
BY LsofAssumption, FS_CardinalityType

LEMMA FileFacts ==
    /\ NoFile \notin File
    /\ \A f \in File : Node[f] \in Nat \ {0} /\ Type[f] \in valid_types \cup {"a_inode"}
    /\ \A p \in Pid, l \in Links : Link[p][l] \in File \cup {NoFile}
    /\ Open \subseteq [file : File, mode : Modes] /\ Closed \notin Open
    /\ Limit \in Nat \ {0}
<1>1. Closed \notin Open
  BY LsofAssumption DEF Closed, Modes
<1>. QED BY <1>1, LsofAssumption DEF NoFile

LEMMA OptionFacts ==
    ASSUME NEW o \in CommandLines
    PROVE  /\ o \in Seq([opt : {"c", "t", "f", "?"}, arg : DOMAIN Found])
           /\ Len(o) \in Nat /\ DOMAIN o = 1..Len(o)
<1>1. o \in Seq([opt : {"c", "t", "f", "?"}, arg : DOMAIN Found])
  BY LsofAssumption
<1>. QED BY <1>1, LenProperties

LEMMA MapsFacts ==
    ASSUME NEW p \in Pid
    PROVE  Maps[p] \in Seq(File) /\ Len(Maps[p]) \in Nat
BY LsofAssumption, LenProperties

\* What the kernel answers about a link.
LEMMA TargetFacts ==
    ASSUME TypeOK, NEW l \in Links \cup Fd
    PROVE  Target(l) \in File \cup {NoFile}
BY FileFacts, FdFacts DEF Target, TypeOK

LEMMA RowType ==
    ASSUME NEW fd \in Links \cup Fd \cup {Blank}
    PROVE  Row(fd) \in Partial
BY DEF Row, Partial, NoNode

-----------------------------------------------------------------------------
(* Types *)

LEMMA InitTypeInv == Init => TypeInv
<1>. SUFFICES ASSUME Init PROVE TypeInv
  OBVIOUS
<1>1. proc \in Pid /\ Len(Maps[proc]) \in Nat /\ Cardinality(Fd) \in Nat
  <2>1. Pid # {}
    BY LsofAssumption
  <2>. QED BY <2>1, MapsFacts, FdFacts DEF Init
<1>2. optind \in 1..Len(options) + 1
  BY OptionFacts DEF Init
<1>3. <<>> \in Seq(FileInfo) /\ <<>> \in Seq(File \cup Fd) /\ Len(<<>>) = 0
      /\ <<>> \in Seq(DOMAIN Found)
  BY EmptySeq
<1>4. filter \in [{"c", "t", "f"} -> Seq(DOMAIN Found)]
  BY <1>3 DEF Init
<1>5. leaked \in 0..Limit
  BY FileFacts DEF Init
<1>6. TypeOK
  BY <1>1, <1>2, <1>3, <1>4, <1>5 DEF Init, TypeOK
<1>7. Shape
  BY <1>3, RowType DEF Init, Shape, Idle, AtFile
<1>. QED BY <1>6, <1>7 DEF Init, TypeInv, Counted, AtFile

\* traverse_proc leaves nothing behind but what it has printed.
LEMMA LeaveTypeInv ==
    ASSUME TypeInv, NEW next \in {"next", "failed"}, Leave(next),
           leaked' \in 0..Limit, UNCHANGED <<arguments, todo, proc>>,
           printed' \in Seq(FileInfo), Len(printed') <= Len(printed)
    PROVE  TypeInv'
<1>1. <<>> \in Seq(FileInfo) /\ <<>> \in Seq(File \cup Fd) /\ Len(<<>>) = 0
  BY EmptySeq
<1>2. /\ Len(printed') <= 4 + Len(Maps[proc']) + Cardinality(Fd)
      /\ had' \in [Fd -> SUBSET (Open \cup {Closed})]
      /\ seen' \in [Fd -> SUBSET (Open \cup {Closed})]
  <2>1. Len(printed) <= 4 + Len(Maps[proc]) + Cardinality(Fd) /\ proc' = proc
        /\ Len(Maps[proc]) \in Nat /\ Cardinality(Fd) \in Nat
    BY MapsFacts, FdFacts DEF TypeInv, TypeOK
  <2>2. Len(printed) \in Nat /\ Len(printed') \in Nat
    BY LenProperties DEF TypeInv, Shape
  <2>3. had' = [d \in Fd |-> {}] /\ seen' = [d \in Fd |-> {}]
    BY DEF Leave
  <2>. QED BY <2>1, <2>2, <2>3
<1>3. TypeOK'
  BY <1>1, <1>2 DEF TypeInv, TypeOK, Leave, arguments
<1>4. Shape'
  BY <1>1, RowType DEF TypeInv, Shape, Leave, Idle, AtFile, arguments
<1>. QED BY <1>3, <1>4 DEF TypeInv, Leave, Counted, AtFile

\* What remains of the output after an abort.
LEMMA ReturnTypeInv ==
    ASSUME TypeInv, Return \/ Abort, leaked' \in 0..Limit, UNCHANGED <<arguments, todo, proc>>
    PROVE  TypeInv'
<1>1. printed \in Seq(FileInfo) /\ Len(printed) \in Nat
  BY LenProperties DEF TypeInv, Shape
<1>2. CASE Return
  BY <1>1, <1>2, LeaveTypeInv DEF Return
<1>3. CASE Abort
  <2>1. PICK n \in 0..Len(printed) : printed' = SubSeq(printed, 1, n)
    BY <1>3 DEF Abort
  <2>2. n \in Int /\ n <= Len(printed)
    BY <1>1, <2>1
  <2>3. \A j \in 1..n : printed[j] \in FileInfo
    BY <1>1, <2>2, ElementOfSeq
  <2>4. printed' \in Seq(FileInfo) /\ Len(printed') = (IF 1 <= n THEN n ELSE 0)
    BY <2>1, <2>2, <2>3, <1>1, SubSeqProperties
  <2>. QED BY <1>1, <1>3, <2>1, <2>2, <2>4, LeaveTypeInv DEF Abort
<1>. QED BY <1>2, <1>3

LEMMA ProcessTypeInv ==
    ASSUME TypeInv, Process
    PROVE  TypeInv'
<1>1. CASE Reaped
  BY <1>1 DEF Reaped, TypeInv, TypeOK, Shape, Counted, arguments
<1>2. ASSUME NEW now \in [Fd -> Open \cup {Closed}], Becomes(now),
             life' \in {"running", "zombie"},
             life' = "running" \/ now = [d \in Fd |-> Closed]
      PROVE  TypeInv'
  <2>1. had' \in [Fd -> SUBSET (Open \cup {Closed})]
    BY <1>2 DEF Becomes, TypeInv, TypeOK
  <2>4. seen' \in [Fd -> SUBSET (Open \cup {Closed})]
    <3>1. \A d \in Fd : now[d] \in Open \cup {Closed} /\ seen[d] \subseteq Open \cup {Closed}
      BY DEF TypeInv, TypeOK
    <3>. QED BY <1>2, <3>1 DEF Becomes
  <2>2. TypeOK'
    BY <1>2, <2>1, <2>4 DEF Becomes, TypeInv, TypeOK, arguments
  <2>3. Shape'
    BY <1>2 DEF Becomes, TypeInv, Shape, arguments
  <2>. QED BY <1>2, <2>2, <2>3 DEF Becomes, TypeInv, Counted
<1>3. CASE Ends
  BY <1>2, <1>3 DEF Ends
<1>4. ASSUME NEW d \in Fd, Closes(d)
      PROVE  TypeInv'
  <2>1. [table EXCEPT ![d] = Closed] \in [Fd -> Open \cup {Closed}]
    BY DEF TypeInv, TypeOK
  <2>. QED BY <1>2, <1>4, <2>1 DEF Closes, Watched
<1>5. ASSUME NEW d \in Fd, NEW o \in Open, Opens(d, o)
      PROVE  TypeInv'
  <2>1. [table EXCEPT ![d] = o] \in [Fd -> Open \cup {Closed}]
    BY DEF TypeInv, TypeOK
  <2>. QED BY <1>2, <1>5, <2>1 DEF Opens, Watched
<1>. QED BY <1>1, <1>3, <1>4, <1>5 DEF Process

\* The options, and the loop of main.
LEMMA MainTypeInv ==
    ASSUME TypeInv, ParseFilter \/ NextProcess \/ EndOfProc
    PROVE  TypeInv'
<1>1. CASE ParseFilter
  <2>1. /\ UNCHANGED <<world, options, todo, proc, info, rows, entries, leaked, printed, had, seen>>
        /\ pc = "parse" /\ pc' \in {"next", "failed", "parse"}
    BY <1>1 DEF ParseFilter
  <2>2. optind' \in 1..Len(options) + 1 /\ filter' \in [{"c", "t", "f"} -> Seq(DOMAIN Found)]
    <3>1. CASE UNCHANGED <<optind, filter>>
      BY <3>1 DEF TypeInv, TypeOK
    <3>2. CASE optind <= Len(options) /\ ~Invalid(options[optind])
               /\ optind' = optind + 1
               /\ filter' = [filter EXCEPT ![options[optind].opt] =
                                Append(@, options[optind].arg)]
      <4>1. options \in CommandLines /\ optind \in 1..Len(options)
        BY <3>2, OptionFacts DEF TypeInv, TypeOK, Shape
      <4>2. options[optind] \in [opt : {"c", "t", "f", "?"}, arg : DOMAIN Found]
        BY <4>1, OptionFacts, ElementOfSeq
      <4>3. options[optind].opt \in {"c", "t", "f"} /\ options[optind].arg \in DOMAIN Found
        BY <3>2, <4>2 DEF Invalid
      <4>4. Append(filter[options[optind].opt], options[optind].arg) \in Seq(DOMAIN Found)
        BY <4>3, AppendProperties DEF TypeInv, TypeOK
      <4>5. Len(options) \in Nat
        BY <4>1, OptionFacts
      <4>. QED BY <3>2, <4>1, <4>3, <4>4, <4>5 DEF TypeInv, TypeOK
    <3>. QED BY <1>1, <3>1, <3>2 DEF ParseFilter
  <2>3. TypeOK'
    BY <2>1, <2>2 DEF TypeInv, TypeOK, world
  <2>4. Shape'
    BY <2>1 DEF TypeInv, Shape, Idle, AtFile, world
  <2>. QED BY <2>1, <2>3, <2>4 DEF TypeInv, Counted, AtFile, world
<1>2. CASE NextProcess
  <2>1. proc' \in Pid
    <3>1. todo \in SUBSET Nat /\ todo \subseteq Pid
      BY LsofAssumption DEF TypeInv, TypeOK
    <3>. QED BY <1>2, <3>1, LeastOf DEF NextProcess
  <2>2. Len(Maps[proc']) \in Nat /\ Cardinality(Fd) \in Nat
    BY <2>1, MapsFacts, FdFacts
  <2>3. /\ pc = "next" /\ pc' = "command" /\ todo' \subseteq todo
        /\ life' \in {"running", "zombie", "gone"} /\ printed' = <<>>
        /\ UNCHANGED <<arguments, info, rows, entries, leaked>>
    BY <1>2 DEF NextProcess
  <2>4. table' \in [Fd -> Open \cup {Closed}]
        /\ (life' # "running" => table' = [d \in Fd |-> Closed])
    BY <1>2 DEF NextProcess
  <2>5. /\ had' \in [Fd -> SUBSET (Open \cup {Closed})]
        /\ seen' \in [Fd -> SUBSET (Open \cup {Closed})]
    BY <1>2, <2>4 DEF NextProcess
  <2>6. <<>> \in Seq(FileInfo) /\ Len(<<>>) = 0
    BY EmptySeq
  <2>7. TypeOK'
    BY <2>1, <2>2, <2>3, <2>4, <2>5, <2>6 DEF TypeInv, TypeOK, arguments
  <2>8. Shape'
    BY <2>3, <2>4, <2>6 DEF TypeInv, Shape, Idle, AtFile, arguments
  <2>. QED BY <2>3, <2>7, <2>8 DEF TypeInv, Counted, AtFile
<1>3. CASE EndOfProc
  BY <1>3 DEF EndOfProc, TypeInv, TypeOK, Shape, Counted, Idle, AtFile, world, arguments
<1>. QED BY <1>1, <1>2, <1>3

\* The beginning of traverse_proc.
LEMMA ProcInfoTypeInv ==
    ASSUME TypeInv, GetCommand \/ GetUserName
    PROVE  TypeInv'
<1>1. CASE GetCommand /\ ~Return
  <2>1. /\ pc = "command" /\ pc' = "user" /\ leaked < Limit
        /\ UNCHANGED <<world, info, rows, entries, had, seen, arguments, todo, proc, leaked, printed>>
    BY <1>1 DEF GetCommand, DescriptorFree
  <2>. QED BY <2>1 DEF TypeInv, TypeOK, Shape, Counted, Idle, AtFile, world, arguments
<1>2. CASE GetUserName /\ ~Return /\ ~Abort
  <2>1. /\ pc = "user" /\ pc' = "readlink" /\ info' = Row("cwd")
        /\ UNCHANGED <<world, rows, entries, had, seen, arguments, todo, proc, leaked, printed>>
    BY <1>2 DEF GetUserName
  <2>2. info' \in Partial /\ info'.fd = "cwd" /\ "cwd" \in Links
    BY <2>1, RowType DEF Row, Links
  <2>3. TypeOK'
    BY <2>1 DEF TypeInv, TypeOK, world, arguments
  <2>4. <<>> \in Seq(Fd) /\ Len(<<>>) = 0
    BY EmptySeq
  <2>5. rows = <<>> /\ entries = <<>> /\ printed = <<>> /\ leaked < Limit
    BY <2>1 DEF TypeInv, Shape, Idle, AtFile
  <2>6. Shape'
    BY <2>1, <2>2, <2>4, <2>5 DEF TypeInv, Shape, Idle, AtFile, world, arguments
  <2>7. Counted'
    BY <2>1, <2>2, <2>4, <2>5, FdFacts DEF Counted, AtFile
  <2>. QED BY <2>3, <2>6, <2>7 DEF TypeInv
<1>3. CASE Return \/ Abort
  <2>1. leaked' \in 0..Limit /\ UNCHANGED <<arguments, todo, proc>>
    BY DEF GetCommand, GetUserName, TypeInv, TypeOK
  <2>. QED BY <1>3, <2>1, ReturnTypeInv
<1>. QED BY <1>1, <1>2, <1>3

\* The rows after one has been added.
LEMMA AppendedRow ==
    ASSUME rows \in Seq(FileInfo), NEW r \in FileInfo
    PROVE  Append(rows, r) \in Seq(FileInfo) /\ Len(Append(rows, r)) = Len(rows) + 1
           /\ Len(rows) \in Nat
BY AppendProperties, LenProperties

\* getfileinfo.
LEMMA FileTypeInv ==
    ASSUME TypeInv, ReadLink \/ LStat \/ GetINode \/ GetType
    PROVE  TypeInv'
<1>. USE DEF TypeInv
<1>1. CASE ReadLink
  <2>1. /\ pc = "readlink" /\ pc' \in {"inode", "lstat"}
        /\ info' = [info EXCEPT !.name = Target(info.fd), !.denied = EACCES]
        /\ UNCHANGED <<world, arguments, todo, proc, rows, entries, leaked, printed, had, seen>>
    BY <1>1 DEF ReadLink
  <2>2. EACCES \in BOOLEAN
    BY DEF EACCES
  <2>3. Target(info.fd) \in File \cup {NoFile}
    BY <2>1, TargetFacts DEF Shape, AtFile
  <2>4. info' \in Partial /\ info'.fd = info.fd
    BY <2>1, <2>2, <2>3 DEF Shape, Partial
  <2>5. TypeOK'
    BY <2>1 DEF TypeOK, world, arguments
  <2>6. Shape'
    BY <2>1, <2>4 DEF Shape, Idle, AtFile, world, arguments
  <2>. QED BY <2>1, <2>4, <2>5, <2>6 DEF Counted, AtFile
<1>2. CASE LStat /\ ~Return
  <2>1. /\ pc = "lstat" /\ pc' = "inode"
        /\ UNCHANGED <<world, info, arguments, todo, proc, rows, entries, leaked, printed, had, seen>>
    BY <1>2 DEF LStat
  <2>. QED BY <2>1 DEF TypeOK, Shape, Counted, Idle, AtFile, world, arguments
<1>3. CASE LStat /\ Return
  <2>1. leaked < Limit
    BY <1>3 DEF LStat, Shape, Idle
  <2>2. leaked' \in 0..Limit /\ UNCHANGED <<arguments, todo, proc>>
    BY <1>3, <2>1, FileFacts DEF LStat, TypeOK
  <2>. QED BY <1>3, <2>2, ReturnTypeInv
<1>4. CASE GetINode
  <2>1. /\ pc = "inode" /\ pc' = "type"
        /\ info' = [info EXCEPT !.node = NodeOf(Target(info.fd))]
        /\ UNCHANGED <<world, arguments, todo, proc, rows, entries, leaked, printed, had, seen>>
    BY <1>4 DEF GetINode
  <2>2. Target(info.fd) \in File \cup {NoFile}
    BY <2>1, TargetFacts DEF Shape, AtFile
  <2>3. info' \in Partial /\ info'.fd = info.fd
    BY <2>1, <2>2, FileFacts DEF Shape, Partial, NoNode, NodeOf
  <2>4. TypeOK'
    BY <2>1 DEF TypeOK, world, arguments
  <2>5. Shape'
    BY <2>1, <2>3 DEF Shape, Idle, AtFile, world, arguments
  <2>. QED BY <2>1, <2>3, <2>4, <2>5 DEF Counted, AtFile
<1>5. CASE GetType
  <2> DEFINE r == [info EXCEPT !.type = TypeOf(Target(info.fd))]
  <2>1. /\ pc = "type" /\ rows' = Append(rows, r)
        /\ UNCHANGED <<world, arguments, todo, proc, entries, leaked, printed, had, seen>>
    BY <1>5 DEF GetType
  <2>2. Target(info.fd) \in File \cup {NoFile} /\ info.fd \in Links \cup Fd
    BY <2>1, TargetFacts DEF Shape, AtFile
  <2>3. r \in FileInfo
    BY <2>2, FileFacts DEF Shape, Partial, FileInfo, valid_types, TypeOf
  <2>4. rows' \in Seq(FileInfo) /\ Len(rows') = Len(rows) + 1 /\ Len(rows) \in Nat
    BY <2>1, <2>3, AppendedRow DEF TypeOK
  <2>5. TypeOK'
    BY <2>1, <2>4 DEF TypeOK, world, arguments
  <2>6. /\ pc \in AtFile
        /\ entries \in Seq(Fd) /\ Len(entries) \in Nat
        /\ info.fd \in Links => entries = <<>>
    BY <2>1, LenProperties DEF Shape, AtFile
  <2>7. ASSUME NEW l \in Links, pc' = "readlink", info' = Row(l)
        PROVE  Shape'
    <3>1. info' \in Partial /\ info'.fd = l /\ l \in {"cwd", "root", "exe"}
      BY <2>7, RowType DEF Row, Links
    <3>2. info.fd \in Links
      BY <1>5, <2>7, FdFacts DEF GetType, Links
    <3>. QED BY <2>1, <2>6, <2>7, <3>1, <3>2 DEF Shape, Idle, AtFile, world, arguments
  <2>8. CASE info.fd \in {"cwd", "root"}
    <3>1. PICK l \in {"root", "exe"} : pc' = "readlink" /\ info' = Row(l)
                      /\ (info.fd = "cwd" => l = "root") /\ (info.fd = "root" => l = "exe")
      BY <1>5, <2>8, FdFacts DEF GetType, Links
    <3>2. info'.fd = l /\ l \in Links /\ l \notin Fd
      BY <3>1, FdFacts DEF Row, Links
    <3>3. Counted'
      BY <2>1, <2>4, <2>6, <2>8, <3>1, <3>2 DEF Counted, AtFile
    <3>. QED BY <2>5, <2>7, <3>1, <3>2, <3>3
  <2>9. CASE info.fd = "exe"
    <3>1. pc' = "openmaps" /\ info' = info /\ entries = <<>>
      BY <1>5, <2>6, <2>9, FdFacts DEF GetType, Links
    <3>2. Shape'
      BY <2>1, <3>1 DEF Shape, Idle, AtFile, world, arguments
    <3>3. Len(rows) = 2
      BY <2>6, <2>9 DEF Counted
    <3>4. Counted'
      BY <2>4, <3>1, <3>3 DEF Counted, AtFile
    <3>. QED BY <2>5, <3>2, <3>4
  <2>10. CASE info.fd \in Fd
    <3>1. pc' = "readdir" /\ info' = info
      BY <1>5, <2>10, FdFacts DEF GetType, Links
    <3>2. Shape'
      BY <2>1, <2>6, <3>1 DEF Shape, Idle, AtFile, world, arguments
    <3>3. proc' = proc /\ Len(Maps[proc]) \in Nat
      BY <2>1, MapsFacts DEF TypeOK
    <3>. QED BY <2>1, <2>4, <2>5, <2>6, <2>10, <3>1, <3>2, <3>3, FdFacts DEF Counted, AtFile
  <2>. QED BY <2>2, <2>8, <2>9, <2>10 DEF Links
<1>. QED BY <1>1, <1>2, <1>3, <1>4, <1>5

\* parse_maps.
LEMMA MapsTypeInv ==
    ASSUME TypeInv, OpenMaps \/ ParseMaps \/ EndOfMaps
    PROVE  TypeInv'
<1>. USE DEF TypeInv
<1>0. proc \in Pid /\ Maps[proc] \in Seq(File) /\ Len(Maps[proc]) \in Nat
      /\ <<>> \in Seq(File) /\ Len(<<>>) = 0
  BY MapsFacts, EmptySeq DEF TypeOK
<1>1. CASE OpenMaps
  <2>1. /\ pc = "openmaps" /\ pc' = "maps" /\ entries' \in {Maps[proc], <<>>}
        /\ UNCHANGED <<world, arguments, todo, proc, info, rows, leaked, printed, had, seen>>
    BY <1>1 DEF OpenMaps
  <2>2. entries' \in Seq(File) /\ Len(entries') <= Len(Maps[proc]) /\ Len(entries') \in Nat
    <3>1. CASE entries' = Maps[proc]
      BY <1>0, <3>1
    <3>2. CASE entries' = <<>>
      BY <1>0, <3>2
    <3>. QED BY <2>1, <3>1, <3>2
  <2>3. entries' \in Seq(File \cup Fd)
    BY <2>2, SeqMonotonic
  <2>4. TypeOK'
    BY <2>1, <2>3 DEF TypeOK, world, arguments
  <2>5. Shape'
    BY <2>1, <2>2 DEF Shape, Idle, AtFile, world, arguments
  <2>6. Len(rows) = 3 /\ rows' = rows /\ proc' = proc
    BY <2>1 DEF Counted
  <2>7. Counted'
    BY <1>0, <2>1, <2>2, <2>6 DEF Counted, AtFile
  <2>. QED BY <2>4, <2>5, <2>7
<1>2. CASE ParseMaps
  <2>1. /\ pc = "maps" /\ pc' = "maps" /\ entries # <<>> /\ entries' = Tail(entries)
        /\ UNCHANGED <<world, arguments, todo, proc, info, leaked, printed, had, seen>>
    BY <1>2 DEF ParseMaps, Rest
  <2>2. entries \in Seq(File)
    BY <2>1 DEF Shape
  <2>3. Head(entries) \in File /\ entries' \in Seq(File)
        /\ Len(entries) \in Nat /\ Len(entries') = Len(entries) - 1
    BY <2>1, <2>2, HeadTailProperties, LenProperties
  <2>4. rows' \in Seq(FileInfo) /\ Len(rows') \in {Len(rows), Len(rows) + 1}
        /\ Len(rows) \in Nat
    <3> DEFINE f == Head(entries)
               row == [Row(IF f \in Unlinked THEN "DEL" ELSE "mem")
                         EXCEPT !.name = f, !.node = Node[f], !.type = "REG"]
    <3>1. rows' = Append(rows, row) \/ rows' = rows
      BY <1>2 DEF ParseMaps
    <3>2. row \in FileInfo
      BY <2>3, FileFacts DEF Row, FileInfo, valid_types
    <3>. QED BY <3>1, <3>2, AppendedRow DEF TypeOK
  <2>5. entries' \in Seq(File \cup Fd)
    BY <2>3, SeqMonotonic
  <2>6. TypeOK'
    BY <2>1, <2>4, <2>5 DEF TypeOK, world, arguments
  <2>7. Shape'
    BY <2>1, <2>3 DEF Shape, Idle, AtFile, world, arguments
  <2>8. Len(rows) + Len(entries) <= 3 + Len(Maps[proc]) /\ proc' = proc
    BY <2>1 DEF Counted
  <2>9. Counted'
    BY <1>0, <2>1, <2>3, <2>4, <2>8 DEF Counted, AtFile
  <2>. QED BY <2>6, <2>7, <2>9
<1>3. CASE EndOfMaps
  <2>1. /\ pc = "maps" /\ pc' = "opendir" /\ entries' = <<>>
        /\ UNCHANGED <<world, arguments, todo, proc, info, rows, leaked, printed, had, seen>>
    BY <1>3 DEF EndOfMaps
  <2>2. entries \in Seq(File) /\ Len(entries) \in Nat
    BY <2>1, LenProperties DEF Shape
  <2>3. <<>> \in Seq(File \cup Fd)
    BY EmptySeq
  <2>4. TypeOK'
    BY <2>1, <2>3 DEF TypeOK, world, arguments
  <2>5. Shape'
    BY <2>1 DEF Shape, Idle, AtFile, world, arguments
  <2>6. Len(rows) + Len(entries) <= 3 + Len(Maps[proc]) /\ proc' = proc /\ Len(rows) \in Nat
    BY <2>1, LenProperties DEF Counted, TypeOK
  <2>7. Len(rows') <= 3 + Len(Maps[proc])
    BY <1>0, <2>1, <2>2, <2>6
  <2>8. Counted'
    BY <2>1, <2>6, <2>7 DEF Counted, AtFile
  <2>. QED BY <2>4, <2>5, <2>8
<1>. QED BY <1>1, <1>2, <1>3

\* traverse_fd.
LEMMA DirTypeInv ==
    ASSUME TypeInv, OpenDir \/ ReadDir \/ GetMode \/ EndOfDir
    PROVE  TypeInv'
<1>. USE DEF TypeInv
<1>0. /\ proc \in Pid /\ Len(Maps[proc]) \in Nat /\ Cardinality(Fd) \in Nat
      /\ Len(rows) \in Nat /\ <<>> \in Seq(FileInfo) /\ Len(<<>>) = 0
      /\ printed \in Seq(FileInfo) /\ Len(printed) \in Nat
  BY MapsFacts, FdFacts, EmptySeq, LenProperties DEF TypeOK, Shape
<1>1. CASE OpenDir
  <2>1. /\ pc = "opendir" /\ UNCHANGED <<world, arguments, todo, proc, info, leaked, printed, had, seen>>
        /\ entries = <<>> /\ printed = <<>> /\ Len(rows) <= 3 + Len(Maps[proc])
        /\ leaked < Limit
    BY <1>1 DEF OpenDir, Shape, Counted, Idle, AtFile
  <2>2. CASE proc \in Denied \/ life = "gone"
    <3> DEFINE row == [Row("NOFD") EXCEPT !.denied = TRUE]
    <3>1. pc' = "dump" /\ rows' = Append(rows, row) /\ entries' = <<>>
      BY <1>1, <2>1, <2>2 DEF OpenDir
    <3>2. row \in FileInfo
      BY DEF Row, FileInfo, NoNode
    <3>3. rows' \in Seq(FileInfo) /\ Len(rows') = Len(rows) + 1
      BY <3>1, <3>2, AppendedRow DEF TypeOK
    <3>4. TypeOK'
      BY <2>1, <3>1, <3>3 DEF TypeOK, world, arguments
    <3>5. Shape'
      BY <2>1, <3>1 DEF Shape, Idle, AtFile, world, arguments
    <3>6. proc' = proc /\ Len(printed') = 0
      BY <1>0, <2>1
    <3>7. Len(rows') + Len(printed') <= 4 + Len(Maps[proc]) + Cardinality(Fd)
      BY <1>0, <2>1, <3>3, <3>6
    <3>. QED BY <3>1, <3>4, <3>5, <3>6, <3>7 DEF Counted, AtFile
  <2>3. CASE ~(proc \in Denied \/ life = "gone")
    <3> DEFINE opened == {d \in Fd : table[d] # Closed}
    <3>1. pc' = "readdir" /\ rows' = rows /\ entries' = SetToSeq(opened)
      BY <1>1, <2>3 DEF OpenDir
    <3>2. IsFiniteSet(opened) /\ Cardinality(opened) <= Cardinality(Fd)
          /\ Cardinality(opened) \in Nat
      BY FdFacts, FS_Subset, FS_CardinalityType
    <3>3. entries' \in Seq(opened) /\ Len(entries') = Cardinality(opened)
      BY <3>1, <3>2, SetToSeqFacts
    <3>4. entries' \in Seq(Fd) /\ entries' \in Seq(File \cup Fd)
      <4>. HIDE DEF opened
      <4>1. opened \subseteq Fd /\ opened \subseteq File \cup Fd
        BY DEF opened
      <4>. QED BY <3>3, <4>1, SeqMonotonic
    <3>5. TypeOK'
      BY <2>1, <3>1, <3>4 DEF TypeOK, world, arguments
    <3>6. Shape'
      BY <2>1, <3>1, <3>4 DEF Shape, Idle, AtFile, world, arguments
    <3>7. Len(rows') + Len(entries') <= 3 + Len(Maps[proc]) + Cardinality(Fd) /\ proc' = proc
      BY <1>0, <2>1, <3>1, <3>2, <3>3
    <3>. QED BY <3>1, <3>5, <3>6, <3>7 DEF Counted, AtFile
  <2>. QED BY <2>2, <2>3
<1>2. CASE ReadDir
  <2>1. /\ pc = "readdir" /\ pc' = "mode" /\ entries # <<>> /\ entries' = Tail(entries)
        /\ info' = Row(Head(entries))
        /\ UNCHANGED <<world, arguments, todo, proc, rows, leaked, printed, had, seen>>
    BY <1>2 DEF ReadDir
  <2>2. entries \in Seq(Fd)
    BY <2>1 DEF Shape
  <2>3. Head(entries) \in Fd /\ entries' \in Seq(Fd)
        /\ Len(entries) \in Nat /\ Len(entries') = Len(entries) - 1
    BY <2>1, <2>2, HeadTailProperties, LenProperties
  <2>4. info' \in Partial /\ info'.fd \in Fd
    BY <2>1, <2>3, RowType DEF Row
  <2>5. entries' \in Seq(File \cup Fd)
    BY <2>3, SeqMonotonic
  <2>6. TypeOK'
    BY <2>1, <2>5 DEF TypeOK, world, arguments
  <2>7. Shape'
    BY <2>1, <2>3, <2>4 DEF Shape, Idle, AtFile, world, arguments
  <2>8. /\ Len(rows) + Len(entries) <= 3 + Len(Maps[proc]) + Cardinality(Fd)
        /\ proc' = proc /\ rows' = rows
    BY <2>1 DEF Counted
  <2>9. Len(rows') + Len(entries') + 1 <= 3 + Len(Maps[proc]) + Cardinality(Fd)
    BY <1>0, <2>3, <2>8
  <2>. QED BY <2>1, <2>6, <2>7, <2>8, <2>9 DEF Counted, AtFile
<1>3. CASE GetMode
  <2>1. /\ pc = "mode" /\ entries \in Seq(Fd) /\ info.fd \in Fd
        /\ UNCHANGED <<world, arguments, todo, proc, rows, entries, leaked, printed, had>>
    BY <1>3 DEF GetMode, Shape
  <2>2. Len(rows) + Len(entries) + 1 <= 3 + Len(Maps[proc]) + Cardinality(Fd)
    BY <2>1 DEF Counted
  <2>3. /\ pc' \in {"readlink", "readdir"}
        /\ info' \in Partial /\ info'.fd = info.fd
    BY <1>3, <2>1 DEF GetMode, Continue, Shape, Partial
  <2>4. TypeOK'
    <3>1. seen' \in [Fd -> SUBSET (Open \cup {Closed})]
      <4>1. CASE seen' = seen
        BY <4>1 DEF TypeOK
      <4>2. CASE seen' = [seen EXCEPT ![info.fd] = @ \cup {table[info.fd]}]
        <5>1. seen[info.fd] \cup {table[info.fd]} \in SUBSET (Open \cup {Closed})
          BY <2>1 DEF TypeOK
        <5>. QED BY <4>2, <5>1 DEF TypeOK
      <4>. QED BY <1>3, <4>1, <4>2 DEF GetMode
    <3>. QED BY <2>1, <3>1 DEF TypeOK, world, arguments
  <2>5. info.fd \notin Links
    BY <2>1, FdFacts
  <2>6. Shape'
    BY <2>1, <2>3, <2>5 DEF Shape, Idle, AtFile, world, arguments
  <2>7. Len(entries) \in Nat
    BY <2>1, LenProperties
  <2>8. info'.fd \notin {"cwd", "root", "exe"} /\ proc' = proc /\ rows' = rows /\ entries' = entries
    BY <2>1, <2>3, <2>5 DEF Links
  <2>9. Counted'
    BY <1>0, <2>2, <2>3, <2>7, <2>8 DEF Counted, AtFile
  <2>. QED BY <2>4, <2>6, <2>9
<1>4. CASE EndOfDir
  <2>1. /\ pc = "readdir" /\ pc' = "dump" /\ entries = <<>>
        /\ UNCHANGED <<world, arguments, todo, proc, info, rows, entries, leaked, printed, had, seen>>
    BY <1>4 DEF EndOfDir
  <2>2. printed = <<>> /\ Len(rows) + Len(entries) <= 3 + Len(Maps[proc]) + Cardinality(Fd)
    BY <2>1 DEF Shape, Counted, Idle
  <2>3. TypeOK'
    BY <2>1 DEF TypeOK, world, arguments
  <2>4. Shape'
    BY <2>1 DEF Shape, Idle, AtFile, world, arguments
  <2>5. Len(rows') + Len(printed') <= 4 + Len(Maps[proc]) + Cardinality(Fd) /\ proc' = proc
    BY <1>0, <2>1, <2>2
  <2>. QED BY <2>1, <2>3, <2>4, <2>5 DEF Counted, AtFile
<1>. QED BY <1>1, <1>2, <1>3, <1>4

\* dump_info.
LEMMA DumpTypeInv ==
    ASSUME TypeInv, Dump \/ EndOfDump
    PROVE  TypeInv'
<1>. USE DEF TypeInv
<1>1. CASE EndOfDump
  <2>1. leaked' \in 0..Limit /\ UNCHANGED <<arguments, todo, proc>>
    BY <1>1 DEF EndOfDump, TypeOK
  <2>. QED BY <1>1, <2>1, ReturnTypeInv DEF EndOfDump
<1>2. CASE Dump /\ Abort
  <2>1. leaked' \in 0..Limit /\ UNCHANGED <<arguments, todo, proc>>
    BY <1>2 DEF Dump, TypeOK
  <2>. QED BY <1>2, <2>1, ReturnTypeInv
<1>3. CASE Dump /\ ~Abort
  <2>1. /\ pc = "dump" /\ rows # <<>> /\ rows' = Tail(rows)
        /\ printed' \in {printed, Append(printed, Head(rows))}
        /\ UNCHANGED <<world, pc, info, entries, had, seen, arguments, todo, proc, leaked>>
    BY <1>3 DEF Dump
  <2>2. /\ Head(rows) \in FileInfo /\ rows' \in Seq(FileInfo)
        /\ Len(rows') = Len(rows) - 1 /\ Len(rows) \in Nat /\ Len(rows') \in Nat
    BY <2>1, HeadTailProperties, LenProperties DEF TypeOK
  <2>3. /\ printed' \in Seq(FileInfo) /\ Len(printed') <= Len(printed) + 1
        /\ Len(printed) \in Nat /\ Len(printed') \in Nat
    BY <2>1, <2>2, AppendProperties, LenProperties DEF Shape
  <2>4. Len(rows) + Len(printed) <= 4 + Len(Maps[proc]) + Cardinality(Fd) /\ proc' = proc
    BY <2>1 DEF Counted
  <2>5. Len(Maps[proc]) \in Nat /\ Cardinality(Fd) \in Nat
    BY MapsFacts, FdFacts DEF TypeOK
  <2>6. /\ Len(rows') + Len(printed') <= 4 + Len(Maps[proc]) + Cardinality(Fd)
        /\ Len(printed') <= 4 + Len(Maps[proc]) + Cardinality(Fd)
    BY <2>2, <2>3, <2>4, <2>5
  <2>7. TypeOK'
    BY <2>1, <2>2, <2>4, <2>6 DEF TypeOK, world, arguments
  <2>8. Shape'
    BY <2>1, <2>3 DEF Shape, Idle, AtFile, world, arguments
  <2>. QED BY <2>1, <2>4, <2>6, <2>7, <2>8 DEF Counted, AtFile
<1>. QED BY <1>1, <1>2, <1>3

LEMMA NextTypeInv == TypeInv /\ [Next]_vars => TypeInv'
<1>. SUFFICES ASSUME TypeInv, [Next]_vars PROVE TypeInv'
  OBVIOUS
<1>1. CASE UNCHANGED vars
  BY <1>1 DEF vars, arguments, TypeInv, TypeOK, Shape, Counted
<1>. QED BY <1>1, ProcessTypeInv, MainTypeInv, ProcInfoTypeInv, FileTypeInv, MapsTypeInv,
            DirTypeInv, DumpTypeInv DEF Next, Scan, Finished

LEMMA SteadyTypeInv == Spec => []TypeInv
BY InitTypeInv, NextTypeInv, PTL DEF Spec

(***************************************************************************)
(* The variables have their types: hw1 never holds more descriptors than   *)
(* it may, and never prints more rows of a process than it has links,      *)
(* mapped files and descriptors.                                           *)
(***************************************************************************)
THEOREM LsofTypeCorrect == Spec => []TypeOK
<1>1. TypeInv => TypeOK
  BY DEF TypeInv
<1>. QED BY <1>1, SteadyTypeInv, PTL

-----------------------------------------------------------------------------
(* What was printed was true                                               *)

\* hw1 is in the directory of the descriptors.
AtDir == pc \in {"readdir", "mode"} \/ (pc \in AtFile /\ info.fd \in Fd)

\* What a row says already: its columns are found out one after the other.
SoFar(r) ==
    /\ r.fd \in Fd =>
         /\ r.mode \in {o.mode : o \in seen[r.fd] \ {Closed}}
         /\ pc \in {"lstat", "inode", "type"} =>
              r.name \in {Shown(r.fd, o).name : o \in seen[r.fd]}
         /\ pc = "type" => r.node \in {Shown(r.fd, o).node : o \in seen[r.fd]}
    /\ r.denied => proc \in Denied

\* The row at hand: while it is filled in, nothing that its descriptor is goes
\* unseen.
AtHand ==
    /\ pc = "mode" => info = Row(info.fd)
    /\ AtDir => proc \notin Denied
    /\ pc \in AtFile /\ info.fd \in Fd => table[info.fd] \in seen[info.fd]
    /\ pc \in AtFile => SoFar(info)

\* A descriptor has not changed, or is known to have, and the rows are true.
Truth ==
    pc \notin Idle =>
        /\ \A d \in Fd : had[d] \subseteq {table[d]}
        /\ \A i \in DOMAIN rows : WasTrue(rows[i])
        /\ \A i \in DOMAIN printed : WasTrue(printed[i])
        /\ AtHand

LEMMA StillTrue ==
    ASSUME proc' = proc, life = "gone" => life' = "gone",
           \A d \in Fd : seen[d] \subseteq seen'[d]
    PROVE  /\ \A r : WasTrue(r) => WasTrue(r)'
           /\ \A r : pc' = pc /\ SoFar(r) => SoFar(r)'
<1>1. ASSUME NEW d \in Fd
      PROVE  /\ {o.mode : o \in seen[d] \ {Closed}} \subseteq {o.mode : o \in seen'[d] \ {Closed}}
             /\ {Shown(d, o).name : o \in seen[d]} \subseteq {Shown(d, o).name : o \in seen'[d]}
             /\ {Shown(d, o).node : o \in seen[d]} \subseteq {Shown(d, o).node : o \in seen'[d]}
             /\ {Shown(d, o).type : o \in seen[d]} \subseteq {Shown(d, o).type : o \in seen'[d]}
  OBVIOUS
<1>2. ASSUME NEW r, WasTrue(r) PROVE WasTrue(r)'
  BY <1>1, <1>2 DEF WasTrue
<1>3. ASSUME NEW r, pc' = pc, SoFar(r) PROVE SoFar(r)'
  BY <1>1, <1>3 DEF SoFar
<1>. QED BY <1>2, <1>3

\* The rows of a sequence that has been shortened or lengthened.
LEMMA TrueRows ==
    ASSUME NEW s \in Seq(FileInfo), \A i \in DOMAIN s : WasTrue(s[i])
    PROVE  /\ \A r \in FileInfo : WasTrue(r) =>
                \A i \in DOMAIN Append(s, r) : WasTrue(Append(s, r)[i])
           /\ s # <<>> => /\ WasTrue(Head(s))
                          /\ \A i \in DOMAIN Tail(s) : WasTrue(Tail(s)[i])
<1>0. DOMAIN s = 1..Len(s) /\ Len(s) \in Nat
  BY LenProperties
<1>1. ASSUME NEW r \in FileInfo, WasTrue(r), NEW i \in DOMAIN Append(s, r)
      PROVE  WasTrue(Append(s, r)[i])
  <2>1. /\ DOMAIN Append(s, r) = 1..Len(s) + 1
        /\ \A j \in 1..Len(s) : Append(s, r)[j] = s[j]
        /\ Append(s, r)[Len(s) + 1] = r
    BY AppendProperties, LenProperties
  <2>. QED BY <1>0, <1>1, <2>1
<1>2. ASSUME s # <<>>
      PROVE  WasTrue(Head(s)) /\ \A i \in DOMAIN Tail(s) : WasTrue(Tail(s)[i])
  <2>1. /\ DOMAIN Tail(s) = 1..(Len(s) - 1) /\ Len(s) >= 1 /\ Head(s) = s[1]
        /\ \A i \in 1..(Len(s) - 1) : Tail(s)[i] = s[i + 1]
    BY <1>2, HeadTailProperties, LenProperties, EmptySeq
  <2>. QED BY <1>0, <2>1
<1>. QED BY <1>1, <1>2

\* What the kernel says of a descriptor is true of it.
LEMMA TargetWasTrue ==
    ASSUME TypeInv, NEW d \in Fd, table[d] \in seen[d], proc \notin Denied
    PROVE  LET f == Target(d) IN
           /\ f \in {Shown(d, o).name : o \in seen[d]}
           /\ NodeOf(f) \in {Shown(d, o).node : o \in seen[d]}
           /\ TypeOf(f) \in {Shown(d, o).type : o \in seen[d]}
<1>1. table[d] \in Open \cup {Closed}
  BY DEF TypeInv, TypeOK
<1>2. CASE table[d] = Closed
  <2>1. Target(d) = NoFile
    BY <1>2, FdFacts DEF Target
  <2>2. Shown(d, Closed).name = NoFile /\ Shown(d, Closed).node = NoNode
        /\ Shown(d, Closed).type = "unknown"
    BY DEF Shown, Row
  <2>. QED BY <1>2, <2>1, <2>2 DEF NodeOf, TypeOf
<1>3. CASE table[d] \in Open /\ table[d] # Closed
  <2>1. life = "running"
    BY <1>3 DEF TypeInv, Shape
  <2>2. Target(d) = table[d].file /\ table[d].file \in File
    BY <1>3, <2>1, FdFacts, FileFacts DEF Target
  <2>3. /\ Shown(d, table[d]).name = table[d].file
        /\ Shown(d, table[d]).node = Node[table[d].file]
        /\ Shown(d, table[d]).type = Type[table[d].file]
    BY <1>3 DEF Shown, FdRow, Row
  <2>. QED BY <2>2, <2>3, FileFacts DEF NodeOf, TypeOf
<1>. QED BY <1>1, <1>2, <1>3

LEMMA NextTruth == TypeInv /\ TypeInv' /\ Truth /\ [Next]_vars => Truth'
<1>. SUFFICES ASSUME TypeInv, TypeInv', Truth, [Next]_vars, pc' \notin Idle
              PROVE  Truth'
  BY DEF Truth
<1>. USE DEF TypeInv
<1>1. CASE NextProcess
  <2>1. rows' = <<>> /\ printed' = <<>> /\ pc' = "command"
        /\ \A d \in Fd : had'[d] = {table'[d]}
    BY <1>1 DEF NextProcess, Shape, Idle
  <2>. QED BY <2>1 DEF Truth, AtHand, AtDir, AtFile
<1>2. ASSUME pc \notin Idle, proc' = proc, life = "gone" => life' = "gone",
             \A d \in Fd : seen[d] \subseteq seen'[d] /\ had'[d] \subseteq {table'[d]},
             pc \in AtFile /\ info.fd \in Fd => table'[info.fd] \in seen'[info.fd],
             UNCHANGED <<pc, info, rows, printed>>
      PROVE  Truth'
  <2>1. \A r : WasTrue(r) => WasTrue(r)'
    BY <1>2, StillTrue
  <2>2. SoFar(info) => SoFar(info)'
    <3>1. \A r : SoFar(r) => SoFar(r)'
      BY <1>2, StillTrue
    <3>. QED BY <1>2, <3>1 DEF SoFar
  <2>3. AtHand'
    BY <1>2, <2>2 DEF Truth, AtHand, AtDir
  <2>. QED BY <1>2, <2>1, <2>3 DEF Truth
<1>3. ASSUME NEW now \in [Fd -> Open \cup {Closed}], Becomes(now), pc \notin Idle,
             life = "running"
      PROVE  Truth'
  <2>1. /\ proc' = proc /\ UNCHANGED <<pc, info, rows, printed>>
        /\ \A d \in Fd : seen[d] \subseteq seen'[d] /\ had'[d] \subseteq {table'[d]}
    BY <1>3 DEF Becomes
  <2>2. pc \in AtFile /\ info.fd \in Fd => table'[info.fd] \in seen'[info.fd]
    BY <1>3 DEF Becomes, Looking, AtFile
  <2>. QED BY <1>2, <1>3, <2>1, <2>2
<1>4. CASE Process
  <2>1. CASE Reaped
    <3>1. UNCHANGED <<pc, proc, had, seen, table, info, rows, printed>> /\ life' = "gone"
      BY <2>1 DEF Reaped
    <3>. QED BY <1>2, <3>1 DEF Truth, AtHand
  <2>2. CASE Ends
    BY <1>3, <2>2 DEF Ends, Watched, Idle
  <2>3. ASSUME NEW d \in Fd, Closes(d)
        PROVE  Truth'
    <3>1. [table EXCEPT ![d] = Closed] \in [Fd -> Open \cup {Closed}]
      BY DEF TypeOK
    <3>. QED BY <1>3, <2>3, <3>1 DEF Closes, Watched, Idle
  <2>4. ASSUME NEW d \in Fd, NEW o \in Open, Opens(d, o)
        PROVE  Truth'
    <3>1. [table EXCEPT ![d] = o] \in [Fd -> Open \cup {Closed}]
      BY DEF TypeOK
    <3>. QED BY <1>3, <2>4, <3>1 DEF Opens, Watched, Idle
  <2>. QED BY <1>4, <2>1, <2>2, <2>3, <2>4 DEF Process
\* From here on, hw1 goes on with the process as it is.
<1>5. ASSUME pc \notin Idle, UNCHANGED <<world, proc, had>>,
             \A d \in Fd : seen[d] \subseteq seen'[d],
             \A i \in DOMAIN rows' : WasTrue(rows'[i]),
             \A i \in DOMAIN printed' : WasTrue(printed'[i]),
             AtHand'
      PROVE  Truth'
  <2>1. \A r : WasTrue(r) => WasTrue(r)'
    BY <1>5, StillTrue DEF world
  <2>. QED BY <1>5, <2>1 DEF Truth, world
<1>6. CASE GetCommand \/ OpenMaps \/ EndOfMaps \/ EndOfDir
  <2>1. CASE Return
    BY <2>1 DEF Return, Leave, Idle
  <2>2. CASE ~Return
    <3>1. /\ pc \notin Idle /\ pc' \notin AtFile \cup {"mode", "readdir"}
          /\ UNCHANGED <<world, proc, had, seen, rows, printed>>
      BY <1>6, <2>2 DEF GetCommand, OpenMaps, EndOfMaps, EndOfDir, Idle, AtFile
    <3>2. AtHand'
      BY <3>1 DEF AtHand, AtDir
    <3>. QED BY <1>5, <3>1, <3>2 DEF Truth
  <2>. QED BY <2>1, <2>2
\* The links of a process itself, which have no columns of a descriptor.
<1>7. ASSUME pc' \in AtFile, NEW fd \in Links, info' = Row(fd)
      PROVE  AtHand'
  <2>1. info'.fd = fd /\ fd \notin Fd /\ info'.denied = FALSE
    BY <1>7, FdFacts DEF Row
  <2>. QED BY <1>7, <2>1 DEF AtHand, AtDir, AtFile, SoFar
<1>8. CASE GetUserName
  <2>1. CASE Return \/ Abort
    BY <2>1 DEF Return, Abort, Leave, Idle
  <2>2. CASE ~Return /\ ~Abort
    <3>1. /\ pc = "user" /\ pc' = "readlink" /\ info' = Row("cwd")
          /\ UNCHANGED <<world, proc, had, seen, rows, printed>>
      BY <1>8, <2>2 DEF GetUserName
    <3>2. AtHand'
      BY <1>7, <3>1 DEF AtFile, Links
    <3>. QED BY <1>5, <3>1, <3>2 DEF Truth, Idle
  <2>. QED BY <2>1, <2>2
<1>9. CASE ReadLink
  <2>1. /\ pc = "readlink" /\ pc' \in {"inode", "lstat"}
        /\ info' = [info EXCEPT !.name = Target(info.fd), !.denied = EACCES]
        /\ UNCHANGED <<world, proc, had, seen, rows, printed>>
    BY <1>9 DEF ReadLink
  <2>2. info \in Partial /\ info.fd \in Links \cup Fd /\ AtHand
    BY <2>1 DEF Truth, Shape, Idle, AtFile
  <2>3. /\ info'.fd = info.fd /\ info'.mode = info.mode
        /\ info'.name = Target(info.fd) /\ info'.denied = EACCES
    BY <2>1, <2>2 DEF Partial
  <2>4. info.fd \in Fd => Target(info.fd) \in {Shown(info.fd, o).name : o \in seen[info.fd]}
    BY <2>1, <2>2, TargetWasTrue DEF AtHand, AtDir, AtFile
  <2>5. SoFar(info)'
    BY <2>1, <2>2, <2>3, <2>4 DEF AtHand, AtFile, SoFar, EACCES
  <2>6. AtHand'
    BY <2>1, <2>2, <2>3, <2>5 DEF AtHand, AtDir, AtFile, world
  <2>. QED BY <1>5, <2>1, <2>6 DEF Truth, Idle
<1>10. CASE LStat
  <2>1. CASE Return
    BY <2>1 DEF Return, Leave, Idle
  <2>2. CASE ~Return
    <3>1. /\ pc = "lstat" /\ pc' = "inode"
          /\ UNCHANGED <<world, proc, had, seen, info, rows, printed>>
      BY <1>10, <2>2 DEF LStat
    <3>2. AtHand'
      BY <3>1 DEF Truth, Idle, AtHand, AtDir, AtFile, SoFar, world
    <3>. QED BY <1>5, <3>1, <3>2 DEF Truth, Idle
  <2>. QED BY <2>1, <2>2
<1>11. CASE GetINode
  <2>1. /\ pc = "inode" /\ pc' = "type"
        /\ info' = [info EXCEPT !.node = NodeOf(Target(info.fd))]
        /\ UNCHANGED <<world, proc, had, seen, rows, printed>>
    BY <1>11 DEF GetINode
  <2>2. info \in Partial /\ info.fd \in Links \cup Fd /\ AtHand
    BY <2>1 DEF Truth, Shape, Idle, AtFile
  <2>3. /\ info'.fd = info.fd /\ info'.mode = info.mode /\ info'.name = info.name
        /\ info'.denied = info.denied /\ info'.node = NodeOf(Target(info.fd))
    BY <2>1, <2>2 DEF Partial
  <2>4. info.fd \in Fd =>
          NodeOf(Target(info.fd)) \in {Shown(info.fd, o).node : o \in seen[info.fd]}
    BY <2>1, <2>2, TargetWasTrue DEF AtHand, AtDir, AtFile
  <2>5. SoFar(info)'
    BY <2>1, <2>2, <2>3, <2>4 DEF AtHand, AtFile, SoFar
  <2>6. AtHand'
    BY <2>1, <2>2, <2>3, <2>5 DEF AtHand, AtDir, AtFile, world
  <2>. QED BY <1>5, <2>1, <2>6 DEF Truth, Idle
<1>12. CASE GetType
  <2> DEFINE r == [info EXCEPT !.type = TypeOf(Target(info.fd))]
  <2>1. /\ pc = "type" /\ rows' = Append(rows, r)
        /\ UNCHANGED <<world, proc, had, seen, printed>>
    BY <1>12 DEF GetType
  <2>2. info \in Partial /\ info.fd \in Links \cup Fd /\ AtHand
    BY <2>1 DEF Truth, Shape, Idle, AtFile
  <2>3. WasTrue(r)
    <3>1. /\ r.fd = info.fd /\ r.mode = info.mode /\ r.name = info.name
          /\ r.node = info.node /\ r.denied = info.denied
          /\ r.type = TypeOf(Target(info.fd))
      BY <2>2 DEF Partial
    <3>2. info.fd \in Fd =>
            TypeOf(Target(info.fd)) \in {Shown(info.fd, o).type : o \in seen[info.fd]}
      BY <2>1, <2>2, TargetWasTrue DEF AtHand, AtDir, AtFile
    <3>3. SoFar(info)
      BY <2>1, <2>2 DEF AtHand, AtFile
    <3>. HIDE DEF r
    <3>. QED BY <2>1, <3>1, <3>2, <3>3 DEF SoFar, WasTrue
  <2>4. r \in FileInfo
    <3>1. Target(info.fd) \in File \cup {NoFile}
      BY <2>2, TargetFacts
    <3>. QED BY <2>2, <3>1, FileFacts DEF Partial, FileInfo, valid_types, TypeOf
  <2>5. \A i \in DOMAIN rows' : WasTrue(rows'[i])
    <3>. HIDE DEF r
    <3>. QED BY <2>1, <2>3, <2>4, TrueRows DEF Truth, TypeOK, Idle
  <2>6. AtHand'
    <3>1. CASE pc' = "readlink" /\ \E l \in Links : info' = Row(l)
      BY <1>7, <3>1 DEF AtFile
    <3>2. CASE pc' = "openmaps"
      BY <3>2 DEF AtHand, AtDir, AtFile
    <3>3. CASE pc' = "readdir" /\ info.fd \in Fd
      <4>1. proc' \notin Denied
        BY <2>1, <2>2, <3>3 DEF AtHand, AtDir, AtFile
      <4>. QED BY <3>3, <4>1 DEF AtHand, AtFile
    <3>. QED BY <1>12, <3>1, <3>2, <3>3 DEF GetType, Links
  <2>. QED BY <1>5, <2>1, <2>5, <2>6 DEF Truth, Idle
<1>13. CASE ParseMaps
  <2> DEFINE f == Head(entries)
             row == [Row(IF f \in Unlinked THEN "DEL" ELSE "mem")
                       EXCEPT !.name = f, !.node = Node[f], !.type = "REG"]
  <2>1. /\ pc = "maps" /\ pc' = "maps" /\ rows' \in {Append(rows, row), rows}
        /\ entries # <<>> /\ UNCHANGED <<world, proc, had, seen, printed>>
    BY <1>13 DEF ParseMaps
  <2>2. f \in File
    BY <2>1, HeadTailProperties DEF Shape
  <2>3. row \in FileInfo
    BY <2>2, FileFacts DEF Row, FileInfo, valid_types
  <2>4. WasTrue(row)
    BY FdFacts DEF Row, WasTrue
  <2>5. \A i \in DOMAIN rows' : WasTrue(rows'[i])
    <3>. HIDE DEF row
    <3>. QED BY <2>1, <2>3, <2>4, TrueRows DEF Truth, TypeOK, Idle
  <2>6. AtHand'
    BY <2>1 DEF AtHand, AtDir, AtFile
  <2>. QED BY <1>5, <2>1, <2>5, <2>6 DEF Truth, Idle
<1>14. CASE OpenDir
  <2> DEFINE row == [Row("NOFD") EXCEPT !.denied = TRUE]
  <2>1. /\ pc = "opendir" /\ UNCHANGED <<world, proc, had, seen, printed>>
        /\ \/ pc' = "readdir" /\ rows' = rows /\ proc \notin Denied
           \/ pc' = "dump" /\ rows' = Append(rows, row) /\ (proc \in Denied \/ life = "gone")
    BY <1>14 DEF OpenDir
  <2>2. row \in FileInfo
    BY DEF Row, FileInfo, NoNode
  <2>3. proc \in Denied \/ life = "gone" => WasTrue(row)
    BY FdFacts DEF Row, WasTrue
  <2>4. \A i \in DOMAIN rows' : WasTrue(rows'[i])
    <3>. HIDE DEF row
    <3>. QED BY <2>1, <2>2, <2>3, TrueRows DEF Truth, TypeOK, Idle
  <2>5. AtHand'
    BY <2>1 DEF AtHand, AtDir, AtFile
  <2>. QED BY <1>5, <2>1, <2>4, <2>5 DEF Truth, Idle
<1>15. CASE ReadDir
  <2>1. /\ pc = "readdir" /\ pc' = "mode" /\ info' = Row(info'.fd)
        /\ UNCHANGED <<world, proc, had, seen, rows, printed>>
    BY <1>15 DEF ReadDir, Row
  <2>2. AtHand'
    BY <2>1 DEF Truth, Idle, AtHand, AtDir, AtFile
  <2>. QED BY <1>5, <2>1, <2>2 DEF Truth, Idle
<1>16. CASE GetMode
  <2>1. /\ pc = "mode" /\ pc' \in {"readlink", "readdir"} /\ info = Row(info.fd)
        /\ info.fd \in Fd /\ proc \notin Denied
        /\ UNCHANGED <<world, proc, had, rows, printed>>
    BY <1>16 DEF GetMode, Continue, Truth, AtHand, AtDir, Idle, Shape
  <2>2. CASE pc' = "readdir"
    <3>1. seen' = seen
      BY <1>16, <2>2 DEF GetMode, Continue
    <3>2. AtHand'
      BY <2>1, <2>2 DEF AtHand, AtFile
    <3>. QED BY <1>5, <2>1, <3>1, <3>2 DEF Truth, Idle
  <2>3. CASE pc' = "readlink"
    <3>1. /\ table[info.fd].mode \in {"u", "r", "w"}
          /\ info' = [info EXCEPT !.mode = table[info.fd].mode]
          /\ seen' = [seen EXCEPT ![info.fd] = @ \cup {table[info.fd]}]
      BY <1>16, <2>3 DEF GetMode, Continue
    <3>2. \A d \in Fd : seen[d] \subseteq seen'[d]
      BY <3>1 DEF TypeOK
    <3>3. table[info.fd] \in seen'[info.fd] /\ table[info.fd] # Closed
      BY <2>1, <3>1 DEF TypeOK, Closed
    <3>4. info'.fd = info.fd /\ info'.mode = table[info.fd].mode /\ info'.denied = FALSE
      BY <2>1, <3>1 DEF Row
    <3>5. SoFar(info)'
      BY <2>1, <2>3, <3>3, <3>4 DEF SoFar
    <3>6. AtHand'
      BY <2>1, <2>3, <3>3, <3>4, <3>5 DEF AtHand, AtDir, AtFile, world
    <3>. QED BY <1>5, <2>1, <3>2, <3>6 DEF Truth, Idle
  <2>. QED BY <2>1, <2>2, <2>3
<1>17. CASE Dump
  <2>1. CASE Abort
    BY <2>1 DEF Abort, Leave, Idle
  <2>2. CASE ~Abort
    <3>1. /\ pc = "dump" /\ pc' = "dump" /\ rows # <<>> /\ rows' = Tail(rows)
          /\ printed' \in {printed, Append(printed, Head(rows))}
          /\ UNCHANGED <<world, proc, had, seen>>
      BY <1>17, <2>2 DEF Dump
    <3>2. WasTrue(Head(rows)) /\ \A i \in DOMAIN rows' : WasTrue(rows'[i])
      BY <3>1, TrueRows DEF Truth, TypeOK, Idle
    <3>3. Head(rows) \in FileInfo
      BY <3>1, HeadTailProperties DEF TypeOK
    <3>4. \A i \in DOMAIN printed' : WasTrue(printed'[i])
      BY <3>1, <3>2, <3>3, TrueRows DEF Truth, Shape, Idle
    <3>5. AtHand'
      BY <3>1 DEF AtHand, AtDir, AtFile
    <3>. QED BY <1>5, <3>1, <3>2, <3>4, <3>5 DEF Idle
  <2>. QED BY <2>1, <2>2
<1>18. CASE ParseFilter \/ EndOfProc \/ EndOfDump \/ Finished \/ UNCHANGED vars
  <2>1. CASE UNCHANGED vars
    <3>1. UNCHANGED <<pc, proc, life, had, seen, table, info, rows, printed>>
      BY <2>1 DEF vars
    <3>. QED BY <1>2, <3>1 DEF Truth, AtHand
  <2>2. CASE ~UNCHANGED vars
    BY <1>18, <2>2 DEF ParseFilter, EndOfProc, EndOfDump, Finished, Return, Leave, Idle
  <2>. QED BY <2>1, <2>2
<1>. QED BY <1>1, <1>4, <1>6, <1>8, <1>9, <1>10, <1>11, <1>12, <1>13, <1>14, <1>15, <1>16,
            <1>17, <1>18 DEF Next, Scan

LEMMA SteadyTruth == Spec => [](TypeInv /\ Truth)
<1>1. Init => Truth
  BY DEF Init, Truth, Idle
<1>. QED BY <1>1, NextTruth, InitTypeInv, NextTypeInv, PTL DEF Spec

\* Where traverse_proc returns.
LEMMA Returns ==
    ASSUME [Next]_vars, Leaving
    PROVE  /\ GetCommand \/ GetUserName \/ LStat \/ EndOfDump
           /\ pc \notin Idle /\ printed' = printed
<1>1. ~Finished /\ ~UNCHANGED vars
  BY DEF Leaving, Finished, vars
<1>2. ~Process
  BY DEF Leaving, Process, Ends, Reaped, Closes, Opens, Becomes
<1>3. GetCommand \/ GetUserName \/ LStat \/ EndOfDump
  BY <1>1, <1>2
     DEF Leaving, Next, Scan, ParseFilter, NextProcess, EndOfProc, ReadLink, GetINode, GetType,
         OpenMaps, ParseMaps, EndOfMaps, OpenDir, ReadDir, GetMode, Continue, EndOfDir, Dump,
         Abort, Leave
<1>. QED BY <1>3 DEF Leaving, GetCommand, GetUserName, LStat, EndOfDump, Idle, Return, Abort, Leave

(***************************************************************************)
(* Nothing is made up, though each row comes from four calls between which *)
(* the process may do anything: each column is that of a file which the    *)
(* descriptor was from the first of these calls to the last, or of none if *)
(* it was closed; and a denial is reported of denied processes only, or of *)
(* the descriptors of one that has gone.                                   *)
(***************************************************************************)
THEOREM WhatIsPrintedWasTrue == Spec => RowsWereTrue
<1>1. ASSUME TypeInv, Truth, [Next]_vars, Leaving, NEW i \in DOMAIN printed'
      PROVE  WasTrue(printed'[i])
  BY <1>1, Returns DEF Truth
<1>2. TypeInv /\ Truth /\ [Next]_vars =>
        [Leaving => \A i \in DOMAIN printed' : WasTrue(printed'[i])]_vars
  BY <1>1
<1>. QED BY <1>2, SteadyTruth, PTL DEF Spec, RowsWereTrue

-----------------------------------------------------------------------------
(* The filters *)

\* The arguments are those of the options that have been read, and a process
\* is looked at if the filters on commands let it pass.
Collected(opt) == {filter[opt][i] : i \in DOMAIN filter[opt]}
Given(opt) == {options[j].arg : j \in {k \in 1..(optind - 1) : options[k].opt = opt}}
Filtered ==
    /\ \A opt \in {"c", "t", "f"} : Collected(opt) = Given(opt)
    /\ pc \notin {"parse", "failed"} => optind = Len(options) + 1
    /\ pc \notin Idle \cup {"command", "user"} => valid_param(Command[proc], filter["c"])

LEMMA InitFiltered == Init => Filtered
<1>. SUFFICES ASSUME Init PROVE Filtered
  OBVIOUS
<1>1. \A opt \in {"c", "t", "f"} : filter[opt] = <<>> /\ DOMAIN filter[opt] = {}
  BY EmptySeq DEF Init
<1>2. 1..(optind - 1) = {}
  BY DEF Init
<1>. QED BY <1>1, <1>2 DEF Init, Filtered, Collected, Given, Idle

LEMMA NextFiltered == TypeInv /\ Filtered /\ [Next]_vars => Filtered'
<1>. SUFFICES ASSUME TypeInv, Filtered, [Next]_vars PROVE Filtered'
  OBVIOUS
<1>1. CASE ParseFilter
  <2>1. CASE UNCHANGED <<optind, filter>>
    <3>1. options' = options /\ pc' \in Idle /\ (pc' \notin {"parse", "failed"} => optind > Len(options))
      BY <1>1, <2>1 DEF ParseFilter, Idle
    <3>2. Len(options) \in Nat /\ optind \in 1..Len(options) + 1
      BY OptionFacts DEF TypeInv, TypeOK, Shape
    <3>3. pc' \notin {"parse", "failed"} => optind = Len(options) + 1
      BY <3>1, <3>2
    <3>4. \A opt \in {"c", "t", "f"} : Collected(opt)' = Collected(opt) /\ Given(opt)' = Given(opt)
      BY <2>1, <3>1 DEF Collected, Given
    <3>. QED BY <2>1, <3>1, <3>3, <3>4 DEF Filtered, Idle
  <2>2. CASE ~UNCHANGED <<optind, filter>>
    <3> DEFINE o == options[optind]
    <3>1. /\ optind <= Len(options) /\ ~Invalid(o) /\ pc' = "parse"
          /\ optind' = optind + 1 /\ options' = options
          /\ filter' = [filter EXCEPT ![o.opt] = Append(@, o.arg)]
      BY <1>1, <2>2 DEF ParseFilter
    <3>2. options \in CommandLines /\ optind \in 1..Len(options)
      BY <3>1, OptionFacts DEF TypeInv, TypeOK, Shape
    <3>3. o \in [opt : {"c", "t", "f", "?"}, arg : DOMAIN Found]
      BY <3>2, OptionFacts, ElementOfSeq
    <3>4. o.opt \in {"c", "t", "f"} /\ o.arg \in DOMAIN Found
      BY <3>1, <3>3 DEF Invalid
    <3>5. ASSUME NEW opt \in {"c", "t", "f"}
          PROVE  Collected(opt)' = {options[j].arg : j \in {k \in 1..optind : options[k].opt = opt}}
      <4>1. /\ filter[opt] \in Seq(DOMAIN Found) /\ filter \in [{"c", "t", "f"} -> Seq(DOMAIN Found)]
            /\ DOMAIN filter[opt] = 1..Len(filter[opt]) /\ Len(filter[opt]) \in Nat
        BY LenProperties DEF TypeInv, TypeOK
      <4>2. 1..optind = (1..(optind - 1)) \cup {optind} /\ optind - 1 + 1 = optind
        BY <3>2
      <4>3. CASE o.opt = opt
        <5> DEFINE more == Append(filter[opt], o.arg)
        <5>1. /\ DOMAIN more = 1..Len(filter[opt]) + 1
              /\ \A i \in 1..Len(filter[opt]) : more[i] = filter[opt][i]
              /\ more[Len(filter[opt]) + 1] = o.arg
          BY <3>4, <4>1, AppendProperties, LenProperties
        <5>2. {more[i] : i \in DOMAIN more} = {filter[opt][i] : i \in DOMAIN filter[opt]} \cup {o.arg}
          <6>. HIDE DEF more
          <6>. QED BY <4>1, <5>1
        <5>3. filter'[opt] = more
          BY <3>1, <4>1, <4>3
        <5>4. {options[j].arg : j \in {k \in 1..optind : options[k].opt = opt}} =
                {options[j].arg : j \in {k \in 1..(optind - 1) : options[k].opt = opt}} \cup {o.arg}
          BY <4>2, <4>3
        <5>5. Collected(opt)' = {more[i] : i \in DOMAIN more}
          BY <5>3 DEF Collected
        <5>6. Collected(opt) = Given(opt)
          BY DEF Filtered
        <5>. QED BY <5>2, <5>4, <5>5, <5>6 DEF Collected, Given
      <4>4. CASE o.opt # opt
        <5>1. filter'[opt] = filter[opt]
          BY <3>1, <3>4, <4>1, <4>4
        <5>2. {k \in 1..optind : options[k].opt = opt} =
                {k \in 1..(optind - 1) : options[k].opt = opt}
          BY <4>2, <4>4
        <5>3. Collected(opt)' = Collected(opt) /\ Collected(opt) = Given(opt)
          BY <5>1 DEF Collected, Filtered
        <5>. QED BY <5>2, <5>3 DEF Given
      <4>. QED BY <4>3, <4>4
    <3>6. optind' - 1 = optind
      BY <3>1, <3>2
    <3>7. \A opt \in {"c", "t", "f"} : Collected(opt)' = Given(opt)'
      BY <3>1, <3>5, <3>6 DEF Given
    <3>. QED BY <3>1, <3>7 DEF Filtered, Idle
  <2>. QED BY <2>1, <2>2
<1>2. CASE UNCHANGED <<options, optind, filter>>
  <2>1. pc = "parse" => ParseFilter \/ pc' = pc
    BY DEF Next, Scan, NextProcess, EndOfProc, GetCommand, GetUserName,
           ReadLink, LStat, GetINode, GetType, OpenMaps, ParseMaps, EndOfMaps, OpenDir, ReadDir,
           GetMode, EndOfDir, Dump, EndOfDump, Process, Ends, Reaped, Closes, Opens, Becomes,
           Finished, vars
  <2>2. pc = "failed" => pc' = pc
    BY DEF Next, Scan, ParseFilter, NextProcess, EndOfProc, GetCommand, GetUserName,
           ReadLink, LStat, GetINode, GetType, OpenMaps, ParseMaps, EndOfMaps, OpenDir, ReadDir,
           GetMode, EndOfDir, Dump, EndOfDump, Process, Ends, Reaped, Closes, Opens, Becomes,
           Finished, vars
  <2>3. pc' \notin Idle \cup {"command", "user"} =>
          \/ pc \notin Idle \cup {"command", "user"} /\ proc' = proc
          \/ valid_param(Command[proc], filter["c"]) /\ proc' = proc
    BY DEF Next, Scan, ParseFilter, NextProcess, EndOfProc, GetCommand, GetUserName, Abort,
           ReadLink, LStat, GetINode, GetType, OpenMaps, ParseMaps, EndOfMaps, OpenDir, ReadDir,
           GetMode, EndOfDir, Dump, EndOfDump, Process, Ends, Reaped, Closes, Opens, Becomes,
           Finished, vars, Idle, Return, Leave
  <2>4. valid_param(Command[proc], filter["c"]) /\ proc' = proc =>
          valid_param(Command[proc], filter["c"])'
    BY <1>2 DEF valid_param
  <2>5. pc' \notin {"parse", "failed"} => optind = Len(options) + 1
    <3>1. CASE ParseFilter
      BY <1>1, <3>1, <1>2 DEF Filtered
    <3>2. CASE ~ParseFilter
      BY <2>1, <2>2, <3>2 DEF Filtered
    <3>. QED BY <3>1, <3>2
  <2>6. \A opt \in {"c", "t", "f"} : Collected(opt)' = Collected(opt) /\ Given(opt)' = Given(opt)
    BY <1>2 DEF Collected, Given
  <2>. QED BY <1>2, <2>3, <2>4, <2>5, <2>6 DEF Filtered
<1>3. ParseFilter \/ UNCHANGED <<options, optind, filter>>
  BY DEF Next, Scan, NextProcess, EndOfProc, GetCommand, GetUserName,
         ReadLink, LStat, GetINode, GetType, OpenMaps, ParseMaps, EndOfMaps, OpenDir, ReadDir,
         GetMode, EndOfDir, Dump, EndOfDump, Process, Ends, Reaped, Closes, Opens, Becomes,
         Finished, vars, arguments
<1>. QED BY <1>1, <1>2, <1>3

-----------------------------------------------------------------------------
(* A descriptor that is left alone                                         *)

\* d has not been touched since the process was found.
Settled(d) == had[d] = {table[d]} /\ proc \notin Denied

Listed(d) == \E i \in DOMAIN entries : entries[i] = d
InHand(d) == pc # "readdir" /\ info.fd = d

NoRow(s, d) == \A i \in DOMAIN s : s[i].fd # d
OnlyRow(s, r) == \E i \in DOMAIN s : s[i] = r /\ \A j \in DOMAIN s : s[j].fd = r.fd => j = i

\* What getfileinfo has found out of a descriptor.
PartlyRead(d, o) ==
    /\ pc # "lstat" /\ (pc # "mode" => Readable(o))
    /\ info.mode = IF pc = "mode" THEN Blank ELSE o.mode
    /\ info.name = IF pc \in {"inode", "type"} THEN o.file ELSE NoFile
    /\ info.node = IF pc = "type" THEN Node[o.file] ELSE NoNode
    /\ ~info.denied

Reading(d, o) ==
    IF Listed(d) THEN ~InHand(d) /\ NoRow(rows, d)
    ELSE IF InHand(d) THEN NoRow(rows, d) /\ PartlyRead(d, o)
    ELSE IF Readable(o) THEN OnlyRow(rows, FdRow(d, o)) ELSE NoRow(rows, d)

Printing(d, o) ==
    \/ NoRow(printed, d) /\ Readable(o) /\ OnlyRow(rows, FdRow(d, o))
    \/ NoRow(rows, d) /\ IF Readable(o) /\ Wanted(FdRow(d, o))
                         THEN OnlyRow(printed, FdRow(d, o)) ELSE NoRow(printed, d)

\* The descriptor comes once in the directory and leads to its row, which is
\* in the list until it is printed.
Followed(d) ==
    /\ pc \notin {"dump"} /\ ~AtDir => NoRow(rows, d)
    /\ AtDir => Reading(d, table[d])
    /\ pc = "dump" => Printing(d, table[d])

Others ==
    /\ AtDir => IsInjective(entries)
    /\ pc \notin Idle => \A d \in Fd : Settled(d) => Followed(d)

\* The filters let through what is asked for.
LEMMA ValidIsAsked ==
    ASSUME Filtered, pc \notin {"parse", "failed"}, TypeInv,
           NEW opt \in {"c", "t", "f"}, NEW value
    PROVE  valid_param(value, filter[opt]) <=> Asked(opt, value)
<1>1. /\ DOMAIN options = 1..Len(options) /\ Len(options) \in Nat
      /\ filter[opt] \in Seq(DOMAIN Found)
  BY OptionFacts DEF TypeInv, Shape, TypeOK
<1>2. 1..(optind - 1) = DOMAIN options
  BY <1>1 DEF Filtered
<1>3. Collected(opt) = {a.arg : a \in {b \in ToSet(options) : b.opt = opt}}
  BY <1>2 DEF Filtered, Given, ToSet
<1>4. filter[opt] = <<>> <=> Collected(opt) = {}
  <2>1. DOMAIN filter[opt] = 1..Len(filter[opt]) /\ Len(filter[opt]) \in Nat
    BY <1>1, LenProperties
  <2>2. filter[opt] = <<>> <=> Len(filter[opt]) = 0
    BY <1>1, EmptySeq
  <2>3. DOMAIN filter[opt] = {} <=> Len(filter[opt]) = 0
    <3>1. Len(filter[opt]) # 0 => 1 \in DOMAIN filter[opt]
      BY <2>1
    <3>2. Len(filter[opt]) = 0 => DOMAIN filter[opt] = {}
      BY <2>1
    <3>. QED BY <3>1, <3>2
  <2>4. DOMAIN filter[opt] = {} <=> Collected(opt) = {}
    BY DEF Collected
  <2>. QED BY <2>2, <2>3, <2>4
<1>5. (\E i \in DOMAIN filter[opt] : value \in Found[filter[opt][i]])
        <=> \E arg \in Collected(opt) : value \in Found[arg]
  BY DEF Collected
<1>. QED BY <1>3, <1>4, <1>5 DEF valid_param, Asked

\* Rows that are added to a list or taken from it.
LEMMA RowAdded ==
    ASSUME NEW s \in Seq(FileInfo), NEW r \in FileInfo
    PROVE  /\ \A d : NoRow(s, d) /\ r.fd # d => NoRow(Append(s, r), d)
           /\ \A q : OnlyRow(s, q) /\ r.fd # q.fd => OnlyRow(Append(s, r), q)
           /\ NoRow(s, r.fd) => OnlyRow(Append(s, r), r)
<1>1. /\ DOMAIN s = 1..Len(s) /\ Len(s) \in Nat
      /\ DOMAIN Append(s, r) = 1..Len(s) + 1
      /\ \A j \in 1..Len(s) : Append(s, r)[j] = s[j]
      /\ Append(s, r)[Len(s) + 1] = r
  BY AppendProperties, LenProperties
<1>2. ASSUME NEW d, NoRow(s, d), r.fd # d
      PROVE  NoRow(Append(s, r), d)
  BY <1>1, <1>2 DEF NoRow
<1>3. ASSUME NEW q, OnlyRow(s, q), r.fd # q.fd
      PROVE  OnlyRow(Append(s, r), q)
  <2>1. PICK i \in DOMAIN s : s[i] = q /\ \A j \in DOMAIN s : s[j].fd = q.fd => j = i
    BY <1>3 DEF OnlyRow
  <2>2. i \in DOMAIN Append(s, r) /\ Append(s, r)[i] = q
    BY <1>1, <2>1
  <2>3. \A j \in DOMAIN Append(s, r) : Append(s, r)[j].fd = q.fd => j = i
    BY <1>1, <1>3, <2>1
  <2>. QED BY <2>2, <2>3 DEF OnlyRow
<1>4. ASSUME NoRow(s, r.fd)
      PROVE  OnlyRow(Append(s, r), r)
  BY <1>1, <1>4 DEF NoRow, OnlyRow
<1>. QED BY <1>2, <1>3, <1>4

LEMMA RowTaken ==
    ASSUME NEW s \in Seq(FileInfo), s # <<>>
    PROVE  /\ \A d : NoRow(s, d) => Head(s).fd # d /\ NoRow(Tail(s), d)
           /\ \A q : OnlyRow(s, q) =>
                \/ Head(s) = q /\ NoRow(Tail(s), q.fd)
                \/ Head(s).fd # q.fd /\ OnlyRow(Tail(s), q)
<1>1. /\ DOMAIN s = 1..Len(s) /\ Len(s) \in Nat /\ Len(s) >= 1 /\ Head(s) = s[1]
      /\ DOMAIN Tail(s) = 1..(Len(s) - 1)
      /\ \A i \in 1..(Len(s) - 1) : Tail(s)[i] = s[i + 1]
  BY HeadTailProperties, LenProperties, EmptySeq
<1>2. ASSUME NEW d, NoRow(s, d)
      PROVE  Head(s).fd # d /\ NoRow(Tail(s), d)
  BY <1>1, <1>2 DEF NoRow
<1>3. ASSUME NEW q, OnlyRow(s, q)
      PROVE  \/ Head(s) = q /\ NoRow(Tail(s), q.fd)
             \/ Head(s).fd # q.fd /\ OnlyRow(Tail(s), q)
  <2>1. PICK i \in DOMAIN s : s[i] = q /\ \A j \in DOMAIN s : s[j].fd = q.fd => j = i
    BY <1>3 DEF OnlyRow
  <2>2. CASE i = 1
    <3>1. \A j \in DOMAIN Tail(s) : Tail(s)[j].fd # q.fd
      BY <1>1, <2>1, <2>2
    <3>. QED BY <1>1, <2>1, <2>2, <3>1 DEF NoRow
  <2>3. CASE i # 1
    <3>1. i - 1 \in DOMAIN Tail(s) /\ Tail(s)[i - 1] = q
      BY <1>1, <2>1, <2>3
    <3>2. \A j \in DOMAIN Tail(s) : Tail(s)[j].fd = q.fd => j = i - 1
      BY <1>1, <2>1
    <3>3. Head(s).fd # q.fd
      BY <1>1, <2>1, <2>3
    <3>. QED BY <3>1, <3>2, <3>3 DEF OnlyRow
  <2>. QED BY <2>2, <2>3
<1>. QED BY <1>2, <1>3

\* The next entry of a directory is none of those that follow it.
LEMMA EntryTaken ==
    ASSUME NEW s \in Seq(Fd), s # <<>>, IsInjective(s)
    PROVE  /\ IsInjective(Tail(s))
           /\ \A d : (\E i \in DOMAIN Tail(s) : Tail(s)[i] = d)
                       <=> (\E i \in DOMAIN s : s[i] = d) /\ d # Head(s)
<1>1. /\ DOMAIN s = 1..Len(s) /\ Len(s) \in Nat /\ Len(s) >= 1 /\ Head(s) = s[1]
      /\ DOMAIN Tail(s) = 1..(Len(s) - 1)
      /\ \A i \in 1..(Len(s) - 1) : Tail(s)[i] = s[i + 1]
  BY HeadTailProperties, LenProperties, EmptySeq
<1>2. IsInjective(Tail(s))
  BY <1>1 DEF IsInjective
<1>3. ASSUME NEW d, NEW i \in DOMAIN Tail(s), Tail(s)[i] = d
      PROVE  (\E j \in DOMAIN s : s[j] = d) /\ d # Head(s)
  <2>1. i + 1 \in DOMAIN s /\ s[i + 1] = d /\ i + 1 # 1 /\ 1 \in DOMAIN s
    BY <1>1, <1>3
  <2>. QED BY <1>1, <2>1 DEF IsInjective
<1>4. ASSUME NEW d, NEW j \in DOMAIN s, s[j] = d, d # Head(s)
      PROVE  \E i \in DOMAIN Tail(s) : Tail(s)[i] = d
  <2>1. j - 1 \in DOMAIN Tail(s) /\ Tail(s)[j - 1] = d
    BY <1>1, <1>4
  <2>. QED BY <2>1
<1>. QED BY <1>2, <1>3, <1>4

\* hw1 goes on with the process as it is.
GoesOn ==
    /\ pc \notin Idle /\ UNCHANGED <<world, proc, had, options>>
    /\ pc' \notin Idle

LEMMA SettledFacts ==
    ASSUME TypeInv, NEW d \in Fd, Settled(d), Readable(table[d])
    PROVE  /\ table[d] \in Open /\ table[d].file \in File /\ Target(d) = table[d].file
           /\ Target(d) # NoFile /\ ~EACCES /\ proc \notin Denied /\ life = "running"
           /\ FdRow(d, table[d]) \in FileInfo
<1>1. table[d] # Closed
  BY DEF Readable, Closed
<1>2. table[d] \in Open /\ table[d].file \in File /\ table[d].mode \in Modes
  BY <1>1, FileFacts DEF TypeInv, TypeOK
<1>3. life = "running"
  BY <1>1 DEF TypeInv, Shape
<1>4. Target(d) = table[d].file
  BY <1>1, <1>3, FdFacts DEF Settled, Target
<1>5. FdRow(d, table[d]) \in FileInfo
  BY <1>2, FileFacts DEF FdRow, Row, FileInfo, valid_types, Readable
<1>. QED BY <1>2, <1>3, <1>4, <1>5, FileFacts DEF Settled, EACCES

LEMMA SameRow ==
    ASSUME NEW r \in FileInfo, NEW q \in FileInfo,
           r.fd = q.fd, r.mode = q.mode, r.name = q.name, r.node = q.node,
           r.type = q.type, r.denied <=> q.denied
    PROVE  r = q
<1>1. r.denied = q.denied
  BY DEF FileInfo
<1>. QED BY <1>1 DEF FileInfo

\* What does not concern a descriptor.
LEMMA StaysBefore ==
    ASSUME GoesOn, rows \in Seq(FileInfo), ~AtDir, ~AtDir', pc # "dump", pc' # "dump",
           rows' = rows \/ \E r \in FileInfo : rows' = Append(rows, r) /\ r.fd \notin Fd,
           NEW d \in Fd, Followed(d)
    PROVE  Followed(d)'
BY RowAdded DEF Followed

\* getprocinfo and parse_maps do not open the directory of descriptors.
LEMMA BeforeOthers ==
    ASSUME TypeInv, TypeInv', Others, GoesOn,
           GetCommand \/ GetUserName \/ OpenMaps \/ ParseMaps \/ EndOfMaps
    PROVE  Others'
<1>. USE DEF TypeInv
<1>1. /\ ~AtDir /\ ~AtDir' /\ pc # "dump" /\ pc' # "dump"
  BY FdFacts DEF GoesOn, GetCommand, GetUserName, OpenMaps, ParseMaps, EndOfMaps, AtDir, AtFile,
                 Return, Abort, Leave, Idle, Row, Links
<1>2. rows' = rows \/ \E r \in FileInfo : rows' = Append(rows, r) /\ r.fd \notin Fd
  <2>1. CASE ParseMaps
    <3> DEFINE f == Head(entries)
               row == [Row(IF f \in Unlinked THEN "DEL" ELSE "mem")
                         EXCEPT !.name = f, !.node = Node[f], !.type = "REG"]
    <3>1. rows' = Append(rows, row) \/ rows' = rows
      BY <2>1 DEF ParseMaps
    <3>2. f \in File
      BY <2>1, HeadTailProperties DEF ParseMaps, Shape
    <3>3. row \in FileInfo /\ row.fd \in {"DEL", "mem"}
      BY <3>2, FileFacts DEF Row, FileInfo, valid_types
    <3>. QED BY <3>1, <3>3, FdFacts
  <2>2. CASE ~ParseMaps
    BY <2>2 DEF GoesOn, GetCommand, GetUserName, OpenMaps, EndOfMaps, Return, Abort, Leave, Idle
  <2>. QED BY <2>1, <2>2
<1>3. ASSUME NEW d \in Fd, Settled(d)'
      PROVE  Followed(d)'
  <2>1. Followed(d)
    BY <1>3 DEF GoesOn, world, Settled, Others
  <2>. QED BY <1>1, <1>2, <2>1, StaysBefore DEF TypeOK
<1>. QED BY <1>1, <1>3 DEF Others

\* The row of a descriptor that has been read.
LEMMA ReadRow ==
    ASSUME TypeInv, pc = "type", info.fd \in Fd, Settled(info.fd),
           PartlyRead(info.fd, table[info.fd])
    PROVE  /\ Readable(table[info.fd])
           /\ [info EXCEPT !.type = TypeOf(Target(info.fd))] = FdRow(info.fd, table[info.fd])
<1> DEFINE o == table[info.fd]
           r == [info EXCEPT !.type = TypeOf(Target(info.fd))]
           mine == FdRow(info.fd, o)
<1>1. Readable(o) /\ info \in Partial
  BY DEF PartlyRead, TypeInv, Shape
<1>2. /\ Target(info.fd) = o.file /\ Target(info.fd) # NoFile
      /\ o.file \in File /\ mine \in FileInfo
  BY <1>1, SettledFacts
<1>3. /\ info.mode = o.mode /\ info.name = o.file /\ info.node = Node[o.file] /\ ~info.denied
  BY DEF PartlyRead
<1>4. /\ mine.fd = info.fd /\ mine.mode = o.mode /\ mine.name = o.file
      /\ mine.node = Node[o.file] /\ mine.type = Type[o.file] /\ ~mine.denied
  BY DEF FdRow, Row
<1>5. /\ r.fd = info.fd /\ r.mode = o.mode /\ r.name = o.file
      /\ r.node = Node[o.file] /\ r.type = Type[o.file] /\ ~r.denied
  BY <1>1, <1>2, <1>3 DEF Partial, TypeOf
<1>6. r \in FileInfo
  <2>1. /\ info \in Partial /\ o.file \in File /\ Type[o.file] \in valid_types \cup {"a_inode"}
    BY <1>1, <1>2, FileFacts
  <2>. QED BY <1>2, <2>1 DEF Partial, FileInfo, TypeOf
<1>7. r = mine
  <2>. HIDE DEF r, mine
  <2>. QED BY <1>2, <1>4, <1>5, <1>6, SameRow
<1>. QED BY <1>1, <1>7

\* getfileinfo: what it finds out of a descriptor that is left alone is right.
LEMMA FileOthers ==
    ASSUME TypeInv, TypeInv', Others, GoesOn, ReadLink \/ LStat \/ GetINode \/ GetType
    PROVE  Others'
<1>. USE DEF TypeInv
<1>1. pc \in AtFile /\ info.fd \in Links \cup Fd /\ pc # "dump" /\ pc # "readdir" /\ pc # "mode"
      /\ info \in Partial
  BY DEF ReadLink, LStat, GetINode, GetType, AtFile, Shape
<1>2. CASE ReadLink \/ LStat \/ GetINode
  <2>1. /\ pc' \in AtFile /\ info'.fd = info.fd /\ UNCHANGED <<entries, rows>>
        /\ pc' # "dump" /\ pc' # "readdir" /\ pc' # "mode"
    BY <1>1, <1>2 DEF ReadLink, LStat, GetINode, AtFile, GoesOn, Return, Leave, Idle, Partial
  <2>2. AtDir' <=> AtDir
    BY <1>1, <2>1 DEF AtDir
  <2>3. ASSUME NEW d \in Fd, Settled(d)'
        PROVE  Followed(d)'
    <3>1. Settled(d) /\ Followed(d) /\ table'[d] = table[d]
      BY <2>3 DEF GoesOn, world, Settled, Others
    <3>2. (Listed(d)' <=> Listed(d)) /\ (InHand(d)' <=> InHand(d))
          /\ (NoRow(rows, d)' <=> NoRow(rows, d))
      BY <1>1, <2>1 DEF Listed, InHand, NoRow
    <3>3. ASSUME AtDir, InHand(d), PartlyRead(d, table[d]), ~Listed(d)
          PROVE  PartlyRead(d, table[d])'
      <4>1. Readable(table[d]) /\ pc # "lstat" /\ info.fd = d
        BY <1>1, <3>3 DEF PartlyRead, InHand
      <4>2. /\ Target(info.fd) = table[d].file /\ Target(info.fd) # NoFile /\ ~EACCES
        BY <3>1, <4>1, SettledFacts
      <4>3. CASE ReadLink
        <5>1. pc = "readlink" /\ pc' = "inode"
              /\ info' = [info EXCEPT !.name = Target(info.fd), !.denied = EACCES]
          BY <4>2, <4>3 DEF ReadLink
        <5>. QED BY <1>1, <3>1, <3>3, <4>1, <4>2, <5>1 DEF PartlyRead, Partial
      <4>4. CASE GetINode
        <5>1. pc = "inode" /\ pc' = "type"
              /\ info' = [info EXCEPT !.node = Node[table[d].file]]
          BY <4>2, <4>4 DEF GetINode, NodeOf
        <5>. QED BY <1>1, <3>1, <3>3, <4>1, <5>1 DEF PartlyRead, Partial
      <4>5. CASE LStat
        BY <4>1, <4>5 DEF LStat
      <4>. QED BY <1>2, <4>3, <4>4, <4>5
    <3>4. AtDir => Reading(d, table[d])'
      BY <2>1, <3>1, <3>2, <3>3 DEF Followed, Reading
    <3>. QED BY <1>1, <2>1, <2>2, <3>1, <3>2, <3>4 DEF Followed
  <2>. QED BY <2>1, <2>2, <2>3 DEF Others
<1>3. CASE GetType
  <2> DEFINE r == [info EXCEPT !.type = TypeOf(Target(info.fd))]
  <2>1. pc = "type" /\ rows' = Append(rows, r) /\ entries' = entries /\ r.fd = info.fd
    BY <1>1, <1>3 DEF GetType, Partial
  <2>2. r \in FileInfo
    <3>1. Target(info.fd) \in File \cup {NoFile}
      BY <1>1, TargetFacts
    <3>. QED BY <1>1, <3>1, FileFacts DEF Partial, FileInfo, valid_types, TypeOf
  <2>3. CASE info.fd \in Links
    <3>1. ~AtDir /\ ~AtDir' /\ pc' # "dump" /\ r.fd \notin Fd
      BY <1>3, <2>1, <2>3, FdFacts DEF GetType, AtDir, AtFile, Row, Links
    <3>2. ASSUME NEW d \in Fd, Settled(d)'
          PROVE  Followed(d)'
      <4>1. Followed(d)
        BY <3>2 DEF GoesOn, world, Settled, Others
      <4>2. \E q \in FileInfo : rows' = Append(rows, q) /\ q.fd \notin Fd
        BY <2>1, <2>2, <3>1
      <4>. QED BY <1>1, <3>1, <4>1, <4>2, StaysBefore DEF TypeOK
    <3>. QED BY <3>1, <3>2 DEF Others
  <2>4. CASE info.fd \in Fd
    <3>1. AtDir /\ pc' = "readdir" /\ AtDir'
      BY <1>1, <1>3, <2>4, FdFacts DEF GetType, AtDir, Links
    <3>2. ASSUME NEW d \in Fd, Settled(d)'
          PROVE  Followed(d)'
      <4>1. Settled(d) /\ Reading(d, table[d]) /\ table'[d] = table[d]
        BY <3>1, <3>2 DEF GoesOn, world, Settled, Others, Followed
      <4>2. (Listed(d)' <=> Listed(d)) /\ ~InHand(d)'
        BY <2>1, <3>1 DEF Listed, InHand
      <4>3. CASE Listed(d)
        <5>1. NoRow(rows, d) /\ r.fd # d
          BY <1>1, <2>1, <4>1, <4>3 DEF Reading, InHand
        <5>2. NoRow(rows', d)
          BY <2>1, <2>2, <5>1, RowAdded DEF TypeOK
        <5>. QED BY <3>1, <4>2, <4>3, <5>2 DEF Followed, Reading
      <4>4. CASE ~Listed(d) /\ InHand(d)
        <5>1. NoRow(rows, d) /\ PartlyRead(d, table[d]) /\ r.fd = d
          BY <2>1, <4>1, <4>4 DEF Reading, InHand
        <5>2. Readable(table[d]) /\ r = FdRow(d, table[d])
          BY <2>1, <4>1, <5>1, ReadRow
        <5>6. OnlyRow(rows', FdRow(d, table[d]))
          <6>. HIDE DEF r
          <6>. QED BY <2>1, <2>2, <5>1, <5>2, RowAdded DEF TypeOK
        <5>. QED BY <3>1, <4>1, <4>2, <4>4, <5>2, <5>6 DEF Followed, Reading
      <4>5. CASE ~Listed(d) /\ ~InHand(d)
        <5>1. r.fd # d
          BY <1>1, <2>1, <4>5 DEF InHand
        <5>2. FdRow(d, table[d]).fd = d
          BY DEF FdRow, Row
        <5>3. IF Readable(table[d]) THEN OnlyRow(rows', FdRow(d, table[d])) ELSE NoRow(rows', d)
          <6>. HIDE DEF r
          <6>. QED BY <2>1, <2>2, <4>1, <4>5, <5>1, <5>2, RowAdded DEF TypeOK, Reading
        <5>. QED BY <3>1, <4>1, <4>2, <4>5, <5>3 DEF Followed, Reading
      <4>. QED BY <4>3, <4>4, <4>5
    <3>. QED BY <2>1, <3>1, <3>2 DEF Others
  <2>. QED BY <1>1, <2>3, <2>4
<1>. QED BY <1>2, <1>3

\* traverse_fd: each entry is read once.
LEMMA DirOthers ==
    ASSUME TypeInv, TypeInv', Truth, Others, GoesOn,
           OpenDir \/ ReadDir \/ GetMode \/ EndOfDir
    PROVE  Others'
<1>. USE DEF TypeInv
<1>1. \A d \in Fd : Settled(d)' => Settled(d) /\ Followed(d) /\ table'[d] = table[d]
  BY DEF GoesOn, world, Settled, Others
<1>2. CASE OpenDir
  <2>1. pc = "opendir" /\ ~AtDir /\ printed = <<>> /\ printed' = printed
    BY <1>2 DEF OpenDir, AtDir, AtFile, Shape, Idle
  <2>2. CASE proc \in Denied \/ life = "gone"
    <3> DEFINE row == [Row("NOFD") EXCEPT !.denied = TRUE]
    <3>1. pc' = "dump" /\ rows' = Append(rows, row)
      BY <1>2, <2>2 DEF OpenDir
    <3>2. row \in FileInfo /\ row.fd = "NOFD"
      BY DEF Row, FileInfo, NoNode
    <3>3. ASSUME NEW d \in Fd, Settled(d)'
          PROVE  Followed(d)'
      <4>1. NoRow(rows, d) /\ Settled(d) /\ table'[d] = table[d]
        BY <1>1, <2>1, <3>3 DEF Followed
      <4>2. table[d] = Closed
        BY <2>2, <4>1 DEF Settled, Shape
      <4>3. NoRow(rows', d)
        <5>. HIDE DEF row
        <5>. QED BY <3>1, <3>2, <4>1, FdFacts, RowAdded DEF TypeOK
      <4>4. NoRow(printed', d)
        BY <2>1 DEF NoRow
      <4>5. Printing(d, Closed)'
        BY <4>3, <4>4 DEF Printing, Readable, Closed
      <4>. QED BY <3>1, <4>1, <4>2, <4>5 DEF Followed, AtDir, AtFile
    <3>. QED BY <3>1, <3>3 DEF Others, AtDir, AtFile
  <2>3. CASE ~(proc \in Denied \/ life = "gone")
    <3> DEFINE opened == {d \in Fd : table[d] # Closed}
    <3>1. pc' = "readdir" /\ rows' = rows /\ entries' = SetToSeq(opened)
      BY <1>2, <2>3 DEF OpenDir
    <3>2. IsFiniteSet(opened)
      BY FdFacts, FS_Subset
    <3>3. /\ IsInjective(entries') /\ entries' \in Seq(opened)
          /\ \A d \in opened : \E i \in DOMAIN entries' : entries'[i] = d
      BY <3>1, <3>2, SetToSeqFacts
    <3>4. ASSUME NEW d \in Fd, Settled(d)'
          PROVE  Followed(d)'
      <4>1. NoRow(rows, d) /\ table'[d] = table[d]
        BY <1>1, <2>1, <3>4 DEF Followed
      <4>2. ~InHand(d)' /\ NoRow(rows, d)'
        BY <3>1, <4>1 DEF InHand
      <4>3. Listed(d)' \/ ~Readable(table[d])
        BY <3>3 DEF Listed, Readable, Closed
      <4>. QED BY <3>1, <4>1, <4>2, <4>3 DEF Followed, Reading
    <3>. QED BY <3>1, <3>3, <3>4 DEF Others
  <2>. QED BY <2>2, <2>3
<1>3. CASE ReadDir
  <2>1. /\ pc = "readdir" /\ pc' = "mode" /\ entries # <<>> /\ entries' = Tail(entries)
        /\ info' = Row(Head(entries)) /\ rows' = rows /\ AtDir /\ AtDir'
    BY <1>3 DEF ReadDir, AtDir
  <2>2. /\ entries \in Seq(Fd) /\ IsInjective(entries) /\ IsInjective(entries')
        /\ \A d : Listed(d)' <=> Listed(d) /\ d # Head(entries)
    BY <2>1, EntryTaken DEF Shape, Others, Listed
  <2>3. Listed(Head(entries))
    BY <2>1, <2>2, HeadTailProperties, EmptySeq, LenProperties DEF Listed
  <2>4. ASSUME NEW d \in Fd, Settled(d)'
        PROVE  Followed(d)'
    <3>1. Reading(d, table[d]) /\ table'[d] = table[d] /\ ~InHand(d)
      BY <1>1, <2>1, <2>4 DEF Followed, InHand
    <3>2. InHand(d)' <=> d = Head(entries)
      BY <2>1 DEF InHand, Row
    <3>3. CASE d = Head(entries)
      <4>1. NoRow(rows', d) /\ ~Listed(d)' /\ InHand(d)'
        BY <2>1, <2>2, <2>3, <3>1, <3>2, <3>3 DEF Reading
      <4>2. PartlyRead(d, table[d])'
        BY <2>1, <3>3 DEF PartlyRead, Row
      <4>. QED BY <2>1, <3>1, <4>1, <4>2 DEF Followed, Reading
    <3>4. CASE d # Head(entries)
      BY <2>1, <2>2, <3>1, <3>2, <3>4 DEF Followed, Reading
    <3>. QED BY <3>3, <3>4
  <2>. QED BY <2>2, <2>4 DEF Others
<1>4. CASE GetMode
  <2>1. /\ pc = "mode" /\ pc' \in {"readlink", "readdir"} /\ info.fd \in Fd
        /\ UNCHANGED <<entries, rows>> /\ AtDir /\ info'.fd = info.fd /\ info = Row(info.fd)
    BY <1>4 DEF GetMode, Continue, AtDir, Shape, Partial, Truth, AtHand, Idle
  <2>2. AtDir'
    BY <2>1 DEF AtDir, AtFile
  <2>3. ASSUME NEW d \in Fd, Settled(d)'
        PROVE  Followed(d)'
    <3>1. Reading(d, table[d]) /\ table'[d] = table[d]
      BY <1>1, <2>1, <2>3 DEF Followed
    <3>2. Listed(d)' <=> Listed(d)
      BY <2>1 DEF Listed
    <3>3. CASE info.fd = d
      <4>1. InHand(d) /\ ~Listed(d) /\ NoRow(rows, d)
        BY <2>1, <3>1, <3>3 DEF InHand, Reading
      <4>2. CASE Readable(table[d])
        <5>1. pc' = "readlink" /\ info' = [info EXCEPT !.mode = table[d].mode]
          BY <1>4, <3>3, <4>2 DEF GetMode, Readable
        <5>2. /\ info'.mode = table[d].mode /\ info'.name = NoFile
              /\ info'.node = NoNode /\ ~info'.denied
          BY <2>1, <5>1 DEF Row
        <5>3. PartlyRead(d, table[d])' /\ InHand(d)'
          BY <2>1, <3>1, <3>3, <4>2, <5>1, <5>2 DEF PartlyRead, InHand
        <5>. QED BY <2>1, <2>2, <3>1, <3>2, <4>1, <5>1, <5>3 DEF Followed, Reading
      <4>3. CASE ~Readable(table[d])
        <5>1. pc' = "readdir"
          BY <1>4, <3>3, <4>3 DEF GetMode, Readable, Continue
        <5>. QED BY <2>1, <2>2, <3>1, <3>2, <4>1, <4>3, <5>1 DEF Followed, Reading, InHand
      <4>. QED BY <4>2, <4>3
    <3>4. CASE info.fd # d
      <4>1. ~InHand(d) /\ ~InHand(d)'
        BY <2>1, <3>4 DEF InHand
      <4>2. Reading(d, table[d])'
        BY <2>1, <3>1, <3>2, <4>1 DEF Reading
      <4>. QED BY <2>1, <2>2, <4>2 DEF Followed
    <3>. QED BY <3>3, <3>4
  <2>. QED BY <2>1, <2>2, <2>3 DEF Others
<1>5. CASE EndOfDir
  <2>1. /\ pc = "readdir" /\ pc' = "dump" /\ entries = <<>> /\ UNCHANGED <<rows, printed>>
        /\ printed = <<>> /\ AtDir /\ ~AtDir'
    BY <1>5 DEF EndOfDir, AtDir, AtFile, Shape, Idle
  <2>2. ASSUME NEW d \in Fd, Settled(d)'
        PROVE  Followed(d)'
    <3>1. Reading(d, table[d]) /\ table'[d] = table[d]
      BY <1>1, <2>1, <2>2 DEF Followed
    <3>2. ~Listed(d) /\ ~InHand(d) /\ NoRow(printed, d)
      BY <2>1 DEF Listed, InHand, NoRow
    <3>3. IF Readable(table[d]) THEN OnlyRow(rows, FdRow(d, table[d])) ELSE NoRow(rows, d)
      BY <3>1, <3>2 DEF Reading
    <3>4. Printing(d, table[d])'
      BY <2>1, <3>1, <3>2, <3>3 DEF Printing
    <3>. QED BY <2>1, <3>4 DEF Followed
  <2>. QED BY <2>1, <2>2 DEF Others
<1>. QED BY <1>2, <1>3, <1>4, <1>5

\* dump_info prints what the filters ask for.
LEMMA DumpOthers ==
    ASSUME TypeInv, TypeInv', Filtered, Others, GoesOn, Dump
    PROVE  Others'
<1>. USE DEF TypeInv
<1>1. /\ pc = "dump" /\ pc' = "dump" /\ rows # <<>> /\ rows' = Tail(rows)
      /\ printed' = IF valid_finfo(Head(rows)) THEN Append(printed, Head(rows)) ELSE printed
  BY DEF Dump, Abort, Leave, GoesOn, Idle
<1>2. /\ Head(rows) \in FileInfo /\ rows \in Seq(FileInfo) /\ printed \in Seq(FileInfo)
  BY <1>1, HeadTailProperties DEF TypeOK, Shape
<1>3. valid_finfo(Head(rows)) <=> Wanted(Head(rows))
  BY <1>1, ValidIsAsked DEF valid_finfo, Wanted, Filtered, Idle
<1>4. ASSUME NEW d \in Fd, Settled(d)'
      PROVE  Followed(d)'
  <2> DEFINE mine == FdRow(d, table[d])
  <2>1. Settled(d) /\ Printing(d, table[d]) /\ table'[d] = table[d]
    BY <1>1, <1>4 DEF GoesOn, world, Settled, Others, Followed
  <2>2. mine.fd = d
    BY DEF FdRow, Row
  <2>3. Wanted(mine)' <=> Wanted(mine)
    BY <2>1 DEF GoesOn, Wanted, Asked, FdRow
  <2>4. CASE Head(rows).fd = d
    <3>1. Readable(table[d]) /\ NoRow(printed, d) /\ Head(rows) = mine /\ NoRow(Tail(rows), d)
      BY <1>1, <1>2, <2>1, <2>2, <2>4, RowTaken DEF Printing
    <3>2. IF Wanted(mine) THEN OnlyRow(printed', mine) ELSE NoRow(printed', d)
      BY <1>1, <1>2, <1>3, <2>2, <3>1, RowAdded
    <3>3. Printing(d, table[d])'
      BY <1>1, <2>1, <2>3, <3>1, <3>2 DEF Printing
    <3>. QED BY <1>1, <3>3 DEF Followed, AtDir, AtFile
  <2>5. CASE Head(rows).fd # d
    <3>1. NoRow(printed, d) => NoRow(printed', d)
      BY <1>1, <1>2, <2>5, RowAdded
    <3>2. OnlyRow(printed, mine) => OnlyRow(printed', mine)
      BY <1>1, <1>2, <2>2, <2>5, RowAdded
    <3>3. NoRow(rows, d) => NoRow(rows', d)
      BY <1>1, <1>2, RowTaken
    <3>4. OnlyRow(rows, mine) => OnlyRow(rows', mine)
      BY <1>1, <1>2, <2>2, <2>5, RowTaken
    <3>5. Printing(d, table[d])'
      BY <1>1, <2>1, <2>3, <3>1, <3>2, <3>3, <3>4 DEF Printing
    <3>. QED BY <1>1, <3>5 DEF Followed, AtDir, AtFile
  <2>. QED BY <2>4, <2>5
<1>. QED BY <1>1, <1>4 DEF Others, AtDir, AtFile

\* The process changes: what has been touched is not claimed any longer.
LEMMA ProcessOthers ==
    ASSUME TypeInv, Truth, Others, Process \/ UNCHANGED vars
    PROVE  Others'
<1>1. ASSUME UNCHANGED <<pc, info, rows, entries, printed, proc, options>>,
             pc \notin Idle => \A d \in Fd : Settled(d)' => Settled(d) /\ table'[d] = table[d]
      PROVE  Others'
  <2>1. AtDir' <=> AtDir
    BY <1>1 DEF AtDir
  <2>2. ASSUME NEW d \in Fd, pc \notin Idle, Settled(d)'
        PROVE  Followed(d)'
    <3>1. Followed(d) /\ table'[d] = table[d]
      BY <1>1, <2>2 DEF Others
    <3>2. /\ Reading(d, table[d]) => Reading(d, table[d])'
          /\ Printing(d, table[d]) => Printing(d, table[d])'
          /\ NoRow(rows, d) => NoRow(rows, d)'
      BY <1>1, <3>1 DEF Reading, Printing, Listed, InHand, PartlyRead, NoRow, OnlyRow,
                        Wanted, Asked, FdRow
    <3>. QED BY <1>1, <2>1, <3>1, <3>2 DEF Followed
  <2>. QED BY <1>1, <2>1, <2>2 DEF Others
<1>2. ASSUME NEW now, Becomes(now)
      PROVE  Others'
  <2>1. UNCHANGED <<pc, info, rows, entries, printed, proc, options>>
    BY <1>2 DEF Becomes, arguments
  <2>2. ASSUME NEW d \in Fd, Settled(d)', pc \notin Idle
        PROVE  Settled(d) /\ table'[d] = table[d]
    <3>1. had[d] \subseteq {table[d]} /\ had'[d] = had[d] \cap {now[d]} /\ table' = now
      BY <1>2, <2>2 DEF Truth, Becomes
    <3>2. had'[d] = {now[d]} /\ proc \notin Denied
      BY <2>1, <2>2, <3>1 DEF Settled
    <3>. QED BY <3>1, <3>2 DEF Settled
  <2>. QED BY <1>1, <2>1, <2>2
<1>3. CASE Reaped \/ UNCHANGED vars
  <2>1. UNCHANGED <<pc, info, rows, entries, printed, proc, options, table, had, seen>>
    BY <1>3 DEF Reaped, vars, arguments
  <2>. QED BY <1>1, <2>1 DEF Settled
<1>. QED BY <1>2, <1>3 DEF Process, Ends, Closes, Opens

\* A process is found.
LEMMA FoundOthers ==
    ASSUME TypeInv, NextProcess
    PROVE  Others'
<1>1. pc' = "command" /\ rows' = <<>>
  BY DEF NextProcess, TypeInv, Shape, Idle
<1>. QED BY <1>1 DEF Others, Followed, AtDir, AtFile, NoRow

LEMMA NextOthers ==
    TypeInv /\ TypeInv' /\ Truth /\ Filtered /\ Others /\ [Next]_vars => Others'
<1>. SUFFICES ASSUME TypeInv, TypeInv', Truth, Filtered, Others, [Next]_vars
              PROVE  Others'
  OBVIOUS
<1>1. CASE pc' \in Idle
  BY <1>1 DEF Others, AtDir, AtFile, Idle
<1>2. CASE Process \/ Finished \/ UNCHANGED vars
  BY <1>2, ProcessOthers DEF Finished
<1>3. CASE NextProcess
  BY <1>3, FoundOthers
<1>4. CASE ParseFilter \/ EndOfProc \/ EndOfDump
  BY <1>1, <1>4 DEF ParseFilter, EndOfProc, EndOfDump, Return, Leave, Idle
<1>5. CASE /\ pc' \notin Idle
           /\ \/ GetCommand \/ GetUserName \/ OpenMaps \/ ParseMaps \/ EndOfMaps
              \/ ReadLink \/ LStat \/ GetINode \/ GetType
              \/ OpenDir \/ ReadDir \/ GetMode \/ EndOfDir \/ Dump
  <2>1. GoesOn
    BY <1>5 DEF GoesOn, Idle, GetCommand, GetUserName, OpenMaps, ParseMaps, EndOfMaps, ReadLink,
                LStat, GetINode, GetType, OpenDir, ReadDir, GetMode, EndOfDir, Dump, Return,
                Abort, Leave, arguments, world
  <2>. QED BY <1>5, <2>1, BeforeOthers, FileOthers, DirOthers, DumpOthers
<1>. QED BY <1>1, <1>2, <1>3, <1>4, <1>5 DEF Next, Scan

OthersInv == TypeInv /\ Truth /\ Filtered /\ Others

LEMMA SteadyOthers == Spec => []OthersInv
<1>1. Init => OthersInv
  <2>1. Init => Truth /\ Others
    BY DEF Init, Truth, Others, Idle, AtDir, AtFile
  <2>. QED BY <2>1, InitTypeInv, InitFiltered DEF OthersInv
<1>2. OthersInv /\ [Next]_vars => OthersInv'
  BY NextTypeInv, NextTruth, NextFiltered, NextOthers DEF OthersInv
<1>. QED BY <1>1, <1>2, PTL DEF Spec

(***************************************************************************)
(* A descriptor that its process leaves alone has one row if the filters   *)
(* ask for it, with its own name, node, mode and type, and otherwise none, *)
(* whatever the process does to its other descriptors meanwhile.           *)
(***************************************************************************)
THEOREM OthersArePrintedExactly == Spec => OthersExact
<1>1. ASSUME OthersInv, [Next]_vars, Leaving, pc = "dump",
             NEW d \in Fd, NEW o \in Open, had[d] = {o}, Readable(o), proc \notin Denied
      PROVE  LET about == {i \in DOMAIN printed' : printed'[i].fd = d} IN
             IF Wanted(FdRow(d, o))
             THEN \E i \in about : about = {i} /\ printed'[i] = FdRow(d, o)
             ELSE about = {}
  <2>1. rows = <<>> /\ printed' = printed
    BY <1>1, Returns DEF GetCommand, GetUserName, LStat, EndOfDump
  <2>2. table[d] = o /\ Settled(d)
    BY <1>1 DEF OthersInv, Truth, Idle, Settled
  <2>3. Printing(d, o)
    BY <1>1, <2>2 DEF OthersInv, Others, Followed, Idle
  <2>4. IF Wanted(FdRow(d, o)) THEN OnlyRow(printed, FdRow(d, o)) ELSE NoRow(printed, d)
    BY <1>1, <2>1, <2>3 DEF Printing, OnlyRow
  <2>5. FdRow(d, o).fd = d
    BY DEF FdRow, Row
  <2>. QED BY <2>1, <2>4, <2>5 DEF OnlyRow, NoRow
<1>2. OthersInv /\ [Next]_vars =>
        [Leaving /\ pc = "dump" =>
           \A d \in Fd, o \in Open : had[d] = {o} /\ Readable(o) /\ proc \notin Denied =>
              LET about == {i \in DOMAIN printed' : printed'[i].fd = d} IN
              IF Wanted(FdRow(d, o))
              THEN \E i \in about : about = {i} /\ printed'[i] = FdRow(d, o)
              ELSE about = {}]_vars
  BY <1>1
<1>. QED BY <1>2, SteadyOthers, PTL DEF Spec, OthersExact

-----------------------------------------------------------------------------
(* A process that is left alone                                            *)

Still == life = "running" /\ \A d \in Fd : had[d] = {table[d]}
Exactly(s, S) == IsInjective(s) /\ ToSet(s) = S

\* The row of a link, and what getfileinfo has found out of it.
Linked(l) ==
    IF proc \in Denied THEN [Row(l) EXCEPT !.denied = TRUE, !.type = "unknown"]
    ELSE LinkRow(l)
PartlyLinked(l) ==
    /\ pc = "lstat" => proc \notin Denied /\ Link[proc][l] = NoFile
    /\ info.mode = Blank
    /\ info.name = IF pc = "readlink" \/ proc \in Denied THEN NoFile ELSE Link[proc][l]
    /\ info.node = IF pc # "type" \/ proc \in Denied THEN NoNode ELSE NodeOf(Link[proc][l])
    /\ info.denied <=> pc # "readlink" /\ proc \in Denied

\* The rows of links and maps, and of the descriptors that have been read.
MapRowsTo(n) == {MapRow(i) : i \in {j \in 1..n : NewMap(j)}}
LinkedRows == {Linked(l) : l \in Links}
Before == LinkedRows \cup IF proc \in Denied THEN {} ELSE MapRows
FdRowsRead == {FdRow(d, table[d]) :
               d \in {e \in Fd : Readable(table[e]) /\ ~Listed(e) /\ ~InHand(e)}}

LinksExact ==
    life = "running" =>
        /\ pc \in AtFile /\ info.fd \in Links => PartlyLinked(info.fd)
        /\ (pc \in AtFile /\ info.fd \in {"root", "exe"}) \/ pc = "openmaps" =>
             rows[1] = Linked("cwd")
        /\ (pc \in AtFile /\ info.fd = "exe") \/ pc = "openmaps" => rows[2] = Linked("root")
        /\ pc = "openmaps" => rows[3] = Linked("exe")

SectionSoFar ==
    /\ pc = "maps" =>
         IF proc \in Denied THEN entries = <<>> /\ Exactly(rows, LinkedRows)
         ELSE \E n \in 0..Len(Maps[proc]) :
                /\ entries = SubSeq(Maps[proc], n + 1, Len(Maps[proc]))
                /\ Exactly(rows, LinkedRows \cup MapRowsTo(n))
    /\ pc = "opendir" => Exactly(rows, Before)
    /\ AtDir => Exactly(rows, Before \cup FdRowsRead)
    /\ pc = "dump" =>
         /\ IsInjective(rows) /\ IsInjective(printed)
         /\ ToSet(rows) \cap ToSet(printed) = {}
         /\ ToSet(printed) \cup {r \in ToSet(rows) : Wanted(r)} = Section

Untroubled ==
    /\ AtDir => proc \notin Denied
    /\ LinksExact
    /\ Still => SectionSoFar

\* Lists without repetition.
LEMMA ExactlyAdded ==
    ASSUME NEW S, NEW s \in Seq(S), NEW r \in S, NEW T, Exactly(s, T), r \notin T
    PROVE  Exactly(Append(s, r), T \cup {r})
<1>1. /\ DOMAIN s = 1..Len(s) /\ Len(s) \in Nat
      /\ DOMAIN Append(s, r) = 1..Len(s) + 1
      /\ \A j \in 1..Len(s) : Append(s, r)[j] = s[j]
      /\ Append(s, r)[Len(s) + 1] = r
  BY AppendProperties, LenProperties
<1>2. \A i \in DOMAIN s : s[i] # r
  BY DEF Exactly, ToSet
<1>3. IsInjective(Append(s, r))
  BY <1>1, <1>2 DEF Exactly, IsInjective
<1>4. ToSet(Append(s, r)) = ToSet(s) \cup {r}
  BY <1>1 DEF ToSet
<1>. QED BY <1>3, <1>4 DEF Exactly

LEMMA ExactlyTaken ==
    ASSUME NEW S, NEW s \in Seq(S), s # <<>>, IsInjective(s)
    PROVE  /\ IsInjective(Tail(s)) /\ Head(s) \notin ToSet(Tail(s))
           /\ ToSet(s) = {Head(s)} \cup ToSet(Tail(s))
<1>1. /\ DOMAIN s = 1..Len(s) /\ Len(s) \in Nat /\ Len(s) >= 1 /\ Head(s) = s[1]
      /\ DOMAIN Tail(s) = 1..(Len(s) - 1)
      /\ \A i \in 1..(Len(s) - 1) : Tail(s)[i] = s[i + 1]
  BY HeadTailProperties, LenProperties, EmptySeq
<1>2. IsInjective(Tail(s))
  BY <1>1 DEF IsInjective
<1>3. ASSUME NEW i \in DOMAIN Tail(s) PROVE Tail(s)[i] # Head(s)
  <2>1. i + 1 \in DOMAIN s /\ 1 \in DOMAIN s /\ i + 1 # 1
    BY <1>1
  <2>. QED BY <1>1, <2>1 DEF IsInjective
<1>4. ASSUME NEW x \in ToSet(s), x # Head(s) PROVE x \in ToSet(Tail(s))
  <2>1. PICK i \in DOMAIN s : s[i] = x
    BY <1>4 DEF ToSet
  <2>2. i - 1 \in DOMAIN Tail(s) /\ Tail(s)[i - 1] = x
    BY <1>1, <1>4, <2>1
  <2>. QED BY <2>2 DEF ToSet
<1>5. ASSUME NEW x \in ToSet(Tail(s)) PROVE x \in ToSet(s)
  <2>1. PICK i \in DOMAIN Tail(s) : Tail(s)[i] = x
    BY <1>5 DEF ToSet
  <2>2. i + 1 \in DOMAIN s /\ s[i + 1] = x
    BY <1>1, <2>1
  <2>. QED BY <2>2 DEF ToSet
<1>6. Head(s) \in ToSet(s)
  <2>1. 1 \in DOMAIN s /\ s[1] = Head(s)
    BY <1>1
  <2>. QED BY <2>1 DEF ToSet
<1>7. Head(s) \notin ToSet(Tail(s))
  BY <1>3 DEF ToSet
<1>. QED BY <1>2, <1>4, <1>5, <1>6, <1>7

LEMMA ExactlyCounted ==
    ASSUME NEW S, NEW s \in Seq(S), IsInjective(s)
    PROVE  Len(s) = Cardinality(ToSet(s))
<1>1. DOMAIN s = 1..Len(s) /\ Len(s) \in Nat /\ s \in [1..Len(s) -> S]
  BY LenProperties
<1>2. s \in Surjection(1..Len(s), ToSet(s)) /\ s \in Injection(1..Len(s), ToSet(s))
  BY <1>1 DEF Surjection, Injection, ToSet
<1>3. IsFiniteSet(1..Len(s)) /\ Cardinality(1..Len(s)) = Len(s)
  BY <1>1, FS_Interval
<1>. QED BY <1>2, <1>3, FS_Surjection

\* The kernel's answer about a link of a running process.
LEMMA LinkFacts ==
    ASSUME TypeInv, life = "running", NEW l \in Links
    PROVE  /\ Link[proc][l] \in File \cup {NoFile}
           /\ Target(l) = IF proc \in Denied THEN NoFile ELSE Link[proc][l]
           /\ EACCES <=> proc \in Denied
           /\ Linked(l) \in FileInfo /\ Linked(l).fd = l
<1>1. Link[proc][l] \in File \cup {NoFile}
  BY FileFacts DEF TypeInv, TypeOK
<1>2. Linked(l).fd = l
  BY DEF Linked, LinkRow, Row
<1>3. Linked(l) \in FileInfo
  <2>1. LinkRow(l) \in FileInfo
    BY <1>1, FileFacts DEF LinkRow, Row, FileInfo, NoNode, NodeOf, TypeOf, valid_types
  <2>2. [Row(l) EXCEPT !.denied = TRUE, !.type = "unknown"] \in FileInfo
    BY DEF Row, FileInfo, NoNode, valid_types
  <2>. QED BY <2>1, <2>2 DEF Linked
<1>. QED BY <1>1, <1>2, <1>3 DEF Target, EACCES

LEMMA LinkRead ==
    ASSUME TypeInv, life = "running", pc = "type", info.fd \in Links, PartlyLinked(info.fd)
    PROVE  [info EXCEPT !.type = TypeOf(Target(info.fd))] = Linked(info.fd)
<1> DEFINE l == info.fd
           f == Link[proc][l]
           r == [info EXCEPT !.type = TypeOf(Target(info.fd))]
           mine == Linked(l)
<1>1. /\ info \in Partial /\ l \in Links /\ f \in File \cup {NoFile} /\ mine \in FileInfo
      /\ Target(l) = IF proc \in Denied THEN NoFile ELSE f
  BY LinkFacts DEF TypeInv, Shape
<1>2. CASE proc \in Denied
  <2>1. /\ mine.fd = l /\ mine.mode = Blank /\ mine.name = NoFile /\ mine.node = NoNode
        /\ mine.type = "unknown" /\ mine.denied
    BY <1>2 DEF Linked, Row
  <2>2. /\ r.fd = l /\ r.mode = Blank /\ r.name = NoFile /\ r.node = NoNode
        /\ r.type = "unknown" /\ r.denied
    BY <1>1, <1>2 DEF Partial, PartlyLinked, TypeOf
  <2>3. r \in FileInfo
    BY <1>1, <1>2 DEF Partial, FileInfo, valid_types, TypeOf
  <2>4. r = mine
    <3>. HIDE DEF r, mine
    <3>. QED BY <1>1, <2>1, <2>2, <2>3, SameRow
  <2>. QED BY <2>4
<1>3. CASE proc \notin Denied
  <2>1. /\ mine.fd = l /\ mine.mode = Blank /\ mine.name = f /\ mine.node = NodeOf(f)
        /\ mine.type = TypeOf(f) /\ ~mine.denied
    BY <1>3 DEF Linked, LinkRow, Row
  <2>2. /\ r.fd = l /\ r.mode = Blank /\ r.name = f /\ r.node = NodeOf(f)
        /\ r.type = TypeOf(f) /\ ~r.denied
    BY <1>1, <1>3 DEF Partial, PartlyLinked
  <2>3. r \in FileInfo
    <3>1. TypeOf(f) \in valid_types \cup {"a_inode"}
      BY <1>1, FileFacts DEF TypeOf, valid_types
    <3>. QED BY <1>1, <1>3, <3>1 DEF Partial, FileInfo
  <2>4. r = mine
    <3>. HIDE DEF r, mine
    <3>. QED BY <1>1, <2>1, <2>2, <2>3, SameRow
  <2>. QED BY <2>4
<1>. QED BY <1>2, <1>3

LEMMA SameWorld ==
    ASSUME GoesOn
    PROVE  /\ Still' <=> Still
           /\ \A l : Linked(l)' = Linked(l)
           /\ LinkedRows' = LinkedRows /\ Before' = Before
           /\ \A n : MapRowsTo(n)' = MapRowsTo(n)
           /\ Section' = Section /\ \A r : Wanted(r)' <=> Wanted(r)
<1>1. UNCHANGED <<life, table, had, proc, options>>
  BY DEF GoesOn, world
<1>2. Still' <=> Still
  BY <1>1 DEF Still
<1>3. LinkedRows' = LinkedRows /\ \A l : Linked(l)' = Linked(l)
  BY <1>1 DEF LinkedRows, Linked, LinkRow, NodeOf, TypeOf
<1>4. MapRows' = MapRows /\ \A n : MapRowsTo(n)' = MapRowsTo(n)
  BY <1>1 DEF MapRows, MapRowsTo, MapRow, NewMap, NodeOf
<1>5. Before' = Before
  BY <1>1, <1>3, <1>4 DEF Before
<1>6. \A r : Wanted(r)' <=> Wanted(r)
  BY <1>1 DEF Wanted, Asked
<1>7. Section' = Section
  <2>1. LinkRows' = LinkRows /\ FdRows' = FdRows
    BY <1>1 DEF LinkRows, LinkRow, FdRows, NodeOf, TypeOf
  <2>. QED BY <1>1, <1>4, <1>6, <2>1 DEF Section
<1>. QED BY <1>2, <1>3, <1>4, <1>5, <1>6, <1>7

\* getfileinfo.
LEMMA FileUntroubled ==
    ASSUME TypeInv, TypeInv', Others, Untroubled, GoesOn,
           ReadLink \/ LStat \/ GetINode \/ GetType
    PROVE  Untroubled'
<1>. USE DEF TypeInv
<1>1. pc \in AtFile /\ info.fd \in Links \cup Fd /\ pc # "dump" /\ pc # "readdir" /\ pc # "mode"
      /\ info \in Partial /\ life' = life /\ proc' = proc /\ table' = table
  BY DEF ReadLink, LStat, GetINode, GetType, AtFile, Shape, GoesOn, world
<1>3. CASE ReadLink \/ LStat \/ GetINode
  <2>1. /\ pc' \in AtFile /\ info'.fd = info.fd /\ UNCHANGED <<entries, rows>>
    BY <1>1, <1>3 DEF ReadLink, LStat, GetINode, AtFile, GoesOn, Return, Leave, Idle, Partial
  <2>2. AtDir' <=> AtDir
    BY <1>1, <2>1 DEF AtDir, AtFile
  <2>3. ASSUME life = "running", info.fd \in Links, PartlyLinked(info.fd)
        PROVE  PartlyLinked(info.fd)'
    <3>1. /\ Target(info.fd) = IF proc \in Denied THEN NoFile ELSE Link[proc][info.fd]
          /\ EACCES <=> proc \in Denied
      BY <2>3, LinkFacts
    <3>2. CASE ReadLink
      <4>1. /\ pc = "readlink" /\ pc' \in {"inode", "lstat"}
            /\ pc' = "lstat" => proc \notin Denied /\ Link[proc][info.fd] = NoFile
            /\ info' = [info EXCEPT !.name = Target(info.fd), !.denied = EACCES]
        BY <3>1, <3>2 DEF ReadLink
      <4>. QED BY <1>1, <2>3, <3>1, <4>1 DEF PartlyLinked, Partial
    <3>3. CASE GetINode
      <4>1. pc = "inode" /\ pc' = "type"
            /\ info' = [info EXCEPT !.node = IF proc \in Denied THEN NoNode
                                             ELSE NodeOf(Link[proc][info.fd])]
        BY <3>1, <3>3 DEF GetINode, NodeOf
      <4>. QED BY <1>1, <2>3, <4>1 DEF PartlyLinked, Partial
    <3>4. CASE LStat
      <4>1. pc = "lstat" /\ pc' = "inode" /\ info' = info
        BY <2>1, <3>4 DEF LStat, Return, Leave, AtFile
      <4>. QED BY <1>1, <2>3, <4>1 DEF PartlyLinked
    <3>. QED BY <1>3, <3>2, <3>3, <3>4
  <2>4. LinksExact'
    BY <1>1, <2>1, <2>3, SameWorld DEF LinksExact, Untroubled, AtFile
  <2>5. ASSUME Still, AtDir
        PROVE  Exactly(rows, Before \cup FdRowsRead)'
    <3>1. FdRowsRead' = FdRowsRead
      BY <1>1, <2>1 DEF FdRowsRead, Listed, InHand, AtFile
    <3>. QED BY <2>1, <2>5, <3>1, SameWorld DEF Untroubled, SectionSoFar
  <2>6. SectionSoFar' \/ ~Still'
    BY <2>1, <2>2, <2>5, SameWorld DEF SectionSoFar, AtFile
  <2>. QED BY <1>1, <2>2, <2>4, <2>6 DEF Untroubled
<1>4. CASE GetType
  <2> DEFINE r == [info EXCEPT !.type = TypeOf(Target(info.fd))]
  <2>1. pc = "type" /\ rows' = Append(rows, r) /\ entries' = entries /\ r.fd = info.fd
    BY <1>1, <1>4 DEF GetType, Partial
  <2>2. CASE info.fd \in Links
    <3>1. ~AtDir' /\ pc' \in {"readlink", "openmaps"}
      BY <1>4, <2>2, FdFacts DEF GetType, AtDir, AtFile, Row, Links
    <3>2. ASSUME life = "running"
          PROVE  LinksExact'
      <4>1. r = Linked(info.fd)
        BY <1>1, <2>1, <2>2, <3>2, LinkRead DEF Untroubled, LinksExact
      <4>2. /\ \A i \in 1..Len(rows) : rows'[i] = rows[i]
            /\ rows'[Len(rows) + 1] = Linked(info.fd)
        BY <1>1, <2>1, <2>2, <3>2, <4>1, LinkFacts, AppendProperties DEF TypeOK
      <4>3. CASE info.fd = "cwd"
        <5>1. rows'[1] = Linked("cwd")
          BY <1>1, <4>2, <4>3 DEF Counted
        <5>2. pc' = "readlink" /\ info' = Row("root")
          BY <1>4, <4>3, FdFacts DEF GetType, Links
        <5>. QED BY <5>1, <5>2, SameWorld DEF LinksExact, PartlyLinked, Row
      <4>4. CASE info.fd = "root"
        <5>1. rows[1] = Linked("cwd") /\ Len(rows) = 1
          BY <1>1, <3>2, <4>4 DEF Untroubled, LinksExact, Counted
        <5>2. rows'[1] = Linked("cwd") /\ rows'[2] = Linked("root")
          BY <4>2, <4>4, <5>1
        <5>3. pc' = "readlink" /\ info' = Row("exe")
          BY <1>4, <4>4, FdFacts DEF GetType, Links
        <5>. QED BY <5>2, <5>3, SameWorld DEF LinksExact, PartlyLinked, Row
      <4>5. CASE info.fd = "exe"
        <5>1. rows[1] = Linked("cwd") /\ rows[2] = Linked("root") /\ Len(rows) = 2
          BY <1>1, <3>2, <4>5 DEF Untroubled, LinksExact, Counted
        <5>2. rows'[1] = Linked("cwd") /\ rows'[2] = Linked("root") /\ rows'[3] = Linked("exe")
          BY <4>2, <4>5, <5>1
        <5>3. pc' = "openmaps"
          BY <1>4, <4>5, FdFacts DEF GetType, Links
        <5>. QED BY <5>2, <5>3, SameWorld DEF LinksExact, AtFile
      <4>. QED BY <2>2, <4>3, <4>4, <4>5 DEF Links
    <3>3. LinksExact'
      BY <1>1, <3>2 DEF LinksExact
    <3>. QED BY <3>1, <3>3 DEF Untroubled, SectionSoFar
  <2>3. CASE info.fd \in Fd
    <3>1. AtDir /\ pc' = "readdir" /\ AtDir'
      BY <1>1, <1>4, <2>3, FdFacts DEF GetType, AtDir, Links
    <3>2. LinksExact'
      BY <3>1 DEF LinksExact, AtFile
    <3>3. ASSUME Still
          PROVE  Exactly(rows, Before \cup FdRowsRead)'
      <4> DEFINE T == Before \cup FdRowsRead
      <4>1. Settled(info.fd)
        BY <2>3, <3>1, <3>3 DEF Still, Settled, Untroubled
      <4>2. InHand(info.fd)
        BY <2>1 DEF InHand
      <4>3. PartlyRead(info.fd, table[info.fd]) /\ ~Listed(info.fd)
        BY <1>1, <2>1, <2>3, <3>1, <4>1, <4>2
           DEF Others, Followed, Reading, Idle, AtFile
      <4>4. r = FdRow(info.fd, table[info.fd]) /\ Readable(table[info.fd])
        BY <2>1, <2>3, <4>1, <4>3, ReadRow
      <4>5. r \in FileInfo
        BY <2>3, <4>1, <4>4, SettledFacts
      <4>6. r \notin T
        <5>1. \A q \in LinkedRows : q.fd \in Links
          BY DEF LinkedRows, Linked, LinkRow, Row
        <5>2. \A q \in MapRows : q.fd \in {"mem", "DEL"}
          BY DEF MapRows, MapRow, Row
        <5>3. \A q \in FdRowsRead : q.fd # info.fd
          BY <4>2 DEF FdRowsRead, FdRow, Row
        <5>4. r.fd = info.fd /\ info.fd \notin Links \cup {"mem", "DEL"}
          BY <2>1, <2>3, FdFacts
        <5>. HIDE DEF r
        <5>. QED BY <5>1, <5>2, <5>3, <5>4 DEF Before
      <4>7. Exactly(rows, T) /\ rows \in Seq(FileInfo)
        BY <3>1, <3>3 DEF Untroubled, SectionSoFar, TypeOK
      <4>8. Exactly(Append(rows, r), T \cup {r})
        <5>. HIDE DEF r, T
        <5>. QED BY <4>5, <4>6, <4>7, ExactlyAdded
      <4>9. FdRowsRead' = FdRowsRead \cup {FdRow(info.fd, table[info.fd])}
        <5>1. \A e \in Fd : /\ Listed(e)' <=> Listed(e)
                            /\ ~InHand(e)' /\ (InHand(e) <=> e = info.fd)
          BY <2>1, <3>1 DEF Listed, InHand
        <5>2. {e \in Fd : Readable(table[e]) /\ ~Listed(e) /\ ~InHand(e)}' =
                {e \in Fd : Readable(table[e]) /\ ~Listed(e) /\ ~InHand(e)} \cup {info.fd}
          BY <1>1, <2>3, <4>3, <4>4, <5>1 DEF Readable
        <5>. QED BY <1>1, <5>2 DEF FdRowsRead, FdRow
      <4>. QED BY <2>1, <4>4, <4>8, <4>9, SameWorld
    <3>4. SectionSoFar' \/ ~Still'
      BY <3>1, <3>3, SameWorld DEF SectionSoFar
    <3>. QED BY <1>1, <3>1, <3>2, <3>4 DEF Untroubled
  <2>. QED BY <1>1, <2>2, <2>3
<1>. QED BY <1>3, <1>4

\* Whether a line of maps is new is seen from the rows that are there.
LEMMA NewNodeIsNew ==
    ASSUME TypeInv, life = "running", proc \notin Denied,
           NEW n \in 0..Len(Maps[proc]), n < Len(Maps[proc]),
           Exactly(rows, LinkedRows \cup MapRowsTo(n))
    PROVE  NewNode(Node[Maps[proc][n + 1]]) <=> NewMap(n + 1)
<1> DEFINE maps == Maps[proc]
           number == Node[maps[n + 1]]
<1>1. NewNode(number) <=> \A r \in ToSet(rows) : r.node # number
  BY DEF NewNode, ToSet
<1>2. ToSet(rows) = LinkedRows \cup MapRowsTo(n)
  BY DEF Exactly
<1>3. \A l \in Links : Linked(l).node = NodeOf(Link[proc][l])
  BY DEF Linked, LinkRow, Row
<1>4. \A j : MapRow(j).node = Node[maps[j]]
  BY DEF MapRow, Row
<1>5. NewNode(number) <=> /\ \A l \in Links : NodeOf(Link[proc][l]) # number
                          /\ \A j \in 1..n : NewMap(j) => Node[maps[j]] # number
  <2>1. (\A r \in LinkedRows : r.node # number) <=> \A l \in Links : NodeOf(Link[proc][l]) # number
    BY <1>3 DEF LinkedRows
  <2>2. (\A r \in MapRowsTo(n) : r.node # number)
          <=> \A j \in 1..n : NewMap(j) => Node[maps[j]] # number
    BY <1>4 DEF MapRowsTo
  <2>. QED BY <1>1, <1>2, <2>1, <2>2
<1>6. n \in Nat /\ n + 1 - 1 = n
  BY LenProperties, MapsFacts DEF TypeInv, TypeOK
<1>7. NewMap(n + 1) <=> /\ \A l \in Links : NodeOf(Link[proc][l]) # number
                        /\ \A j \in 1..n : Node[maps[j]] # number
  BY <1>6 DEF NewMap
<1>8. ASSUME NEW j \in 1..n, Node[maps[j]] = number,
             \A l \in Links : NodeOf(Link[proc][l]) # number
      PROVE  \E k \in 1..n : NewMap(k) /\ Node[maps[k]] = number
  <2> DEFINE same == {k \in 1..n : Node[maps[k]] = number}
  <2>1. same \in SUBSET Nat /\ same # {}
    BY <1>6, <1>8
  <2>2. \E x \in same : \A y \in same : x <= y
    <3>. HIDE DEF same
    <3>. QED BY <2>1, LeastExists
  <2>3. PICK x \in same : \A y \in same : x <= y
    BY <2>2
  <2>4. \A y \in 1..(x - 1) : Node[maps[y]] # Node[maps[x]]
    <3>1. \A y \in 1..(x - 1) : y \in 1..n /\ ~(x <= y)
      BY <1>6, <2>3
    <3>. QED BY <2>3, <3>1
  <2>5. NewMap(x)
    BY <1>8, <2>3, <2>4 DEF NewMap
  <2>. QED BY <2>3, <2>5
<1>. QED BY <1>5, <1>7, <1>8

\* getprocinfo and parse_maps.
LEMMA BeforeUntroubled ==
    ASSUME TypeInv, TypeInv', Untroubled, GoesOn,
           GetCommand \/ GetUserName \/ OpenMaps \/ ParseMaps \/ EndOfMaps
    PROVE  Untroubled'
<1>. USE DEF TypeInv
<1>0. life' = life /\ proc' = proc /\ table' = table /\ had' = had
  BY DEF GoesOn, world
<1>1. ~AtDir' /\ pc' # "dump"
  BY <1>0, FdFacts
     DEF GetCommand, GetUserName, OpenMaps, ParseMaps, EndOfMaps, AtDir, AtFile, Return, Abort,
         Leave, GoesOn, Idle, Row, Links, Untroubled
<1>2. LinksExact'
  <2>1. CASE GetUserName
    <3>1. pc' = "readlink" /\ info' = Row("cwd")
      BY <2>1 DEF GetUserName, Return, Abort, Leave, GoesOn, Idle
    <3>. QED BY <3>1 DEF LinksExact, PartlyLinked, Row
  <2>2. CASE ~GetUserName
    <3>1. pc' \notin AtFile \cup {"openmaps"}
      BY <2>2 DEF GetCommand, OpenMaps, ParseMaps, EndOfMaps, AtFile, Return, Leave, GoesOn, Idle
    <3>. QED BY <3>1 DEF LinksExact
  <2>. QED BY <2>1, <2>2
<1>3. SUFFICES ASSUME Still PROVE SectionSoFar'
  BY <1>1, <1>2, SameWorld DEF Untroubled
<1>4. SectionSoFar /\ life = "running"
  BY <1>3 DEF Untroubled, Still
<1>5. /\ proc \in Pid /\ Maps[proc] \in Seq(File) /\ Len(Maps[proc]) \in Nat
      /\ DOMAIN Maps[proc] = 1..Len(Maps[proc])
  BY MapsFacts, LenProperties DEF TypeOK
<1>6. CASE GetCommand \/ GetUserName
  <2>1. pc' \notin {"maps", "opendir"}
    BY <1>6 DEF GetCommand, GetUserName, Return, Abort, Leave, GoesOn, Idle
  <2>. QED BY <1>1, <2>1 DEF SectionSoFar
<1>7. CASE OpenMaps
  <2>1. /\ pc = "openmaps" /\ pc' = "maps" /\ rows' = rows
        /\ entries' = IF proc \in Denied THEN <<>> ELSE Maps[proc]
    BY <1>4, <1>7 DEF OpenMaps
  <2>2. /\ Len(rows) = 3 /\ rows[1] = Linked("cwd") /\ rows[2] = Linked("root")
        /\ rows[3] = Linked("exe") /\ DOMAIN rows = 1..3
    BY <1>4, <2>1, LenProperties DEF Counted, Untroubled, LinksExact, TypeOK
  <2>3. Exactly(rows, LinkedRows)
    <3>1. \A i \in 1..3 : i = 1 \/ i = 2 \/ i = 3
      OBVIOUS
    <3>2. Linked("cwd").fd = "cwd" /\ Linked("root").fd = "root" /\ Linked("exe").fd = "exe"
      BY <1>4, LinkFacts DEF Links
    <3>3. IsInjective(rows)
      BY <2>2, <3>1, <3>2 DEF IsInjective
    <3>4. ToSet(rows) = {Linked("cwd"), Linked("root"), Linked("exe")}
      BY <2>2, <3>1 DEF ToSet
    <3>. QED BY <3>3, <3>4 DEF Exactly, LinkedRows, Links
  <2>4. CASE proc \in Denied
    BY <1>0, <2>1, <2>3, <2>4, SameWorld, <1>1 DEF SectionSoFar
  <2>5. CASE proc \notin Denied
    <3>1. entries' = SubSeq(Maps[proc], 0 + 1, Len(Maps[proc]))
      BY <1>5, <2>1, <2>5, SubSeqFull
    <3>2. MapRowsTo(0) = {}
      BY DEF MapRowsTo
    <3>3. Exactly(rows', LinkedRows \cup MapRowsTo(0))
      BY <2>1, <2>3, <3>2
    <3>4. 0 \in 0..Len(Maps[proc])
      BY <1>5
    <3>. QED BY <1>0, <1>1, <2>1, <2>5, <3>1, <3>3, <3>4, SameWorld DEF SectionSoFar
  <2>. QED BY <2>4, <2>5
<1>8. CASE ParseMaps
  <2> DEFINE maps == Maps[proc]
             f == Head(entries)
             row == [Row(IF f \in Unlinked THEN "DEL" ELSE "mem")
                       EXCEPT !.name = f, !.node = Node[f], !.type = "REG"]
  <2>1. /\ pc = "maps" /\ pc' = "maps" /\ entries # <<>> /\ entries' = Tail(entries)
        /\ rows' = IF NewNode(Node[f]) THEN Append(rows, row) ELSE rows
    BY <1>8 DEF ParseMaps, Rest
  <2>2. proc \notin Denied
    BY <1>4, <2>1 DEF SectionSoFar
  <2>3. PICK n \in 0..Len(maps) : /\ entries = SubSeq(maps, n + 1, Len(maps))
                                  /\ Exactly(rows, LinkedRows \cup MapRowsTo(n))
    BY <1>4, <2>1, <2>2 DEF SectionSoFar
  <2>4. n < Len(maps)
    <3>1. n = Len(maps) => SubSeq(maps, n + 1, Len(maps)) = <<>>
      BY <1>5, SubSeqEmpty
    <3>. QED BY <1>5, <2>1, <2>3, <3>1
  <2>5. f = maps[n + 1] /\ entries' = SubSeq(maps, n + 2, Len(maps)) /\ f \in File
    <3>1. n + 1 \in 1..Len(maps) /\ Len(maps) \in (n + 1)..Len(maps) /\ n + 1 + 1 = n + 2
      BY <1>5, <2>4
    <3>2. /\ Head(SubSeq(maps, n + 1, Len(maps))) = maps[n + 1]
          /\ Tail(SubSeq(maps, n + 1, Len(maps))) = SubSeq(maps, n + 1 + 1, Len(maps))
      BY <1>5, <3>1, HeadTailOfSubSeq
    <3>. QED BY <1>5, <2>1, <2>3, <3>1, <3>2, ElementOfSeq
  <2>6. NewNode(Node[f]) <=> NewMap(n + 1)
    BY <1>4, <2>2, <2>3, <2>4, <2>5, NewNodeIsNew
  <2>7. n + 1 \in 0..Len(maps) /\ n + 1 + 1 = n + 2 /\ 1..(n + 1) = (1..n) \cup {n + 1}
    BY <1>5, <2>4
  <2>8. Exactly(rows', LinkedRows \cup MapRowsTo(n + 1))
    <3>1. CASE ~NewMap(n + 1)
      <4>1. MapRowsTo(n + 1) = MapRowsTo(n)
        BY <2>7, <3>1 DEF MapRowsTo
      <4>. QED BY <2>1, <2>3, <2>6, <3>1, <4>1
    <3>2. CASE NewMap(n + 1)
      <4>1. row = MapRow(n + 1)
        BY <2>5 DEF MapRow
      <4>2. MapRowsTo(n + 1) = MapRowsTo(n) \cup {MapRow(n + 1)}
        BY <2>7, <3>2 DEF MapRowsTo
      <4>3. row \in FileInfo
        BY <2>5, FileFacts DEF Row, FileInfo, valid_types
      <4>4. row.node = Node[f]
        BY DEF Row
      <4>5. row \notin LinkedRows \cup MapRowsTo(n)
        <5>1. \A q \in ToSet(rows) : q.node # Node[f]
          BY <2>6, <3>2 DEF NewNode, ToSet
        <5>. HIDE DEF row
        <5>. QED BY <2>3, <4>4, <5>1 DEF Exactly
      <4>6. rows' = Append(rows, row)
        BY <2>1, <2>6, <3>2
      <4>7. Exactly(Append(rows, row), (LinkedRows \cup MapRowsTo(n)) \cup {row})
        <5>. HIDE DEF row
        <5>. QED BY <2>3, <4>3, <4>5, ExactlyAdded DEF TypeOK
      <4>8. LinkedRows \cup MapRowsTo(n + 1) = (LinkedRows \cup MapRowsTo(n)) \cup {row}
        BY <4>1, <4>2
      <4>. QED BY <4>6, <4>7, <4>8
    <3>. QED BY <3>1, <3>2
  <2>. QED BY <1>0, <1>1, <2>1, <2>2, <2>5, <2>7, <2>8, SameWorld DEF SectionSoFar
<1>9. CASE EndOfMaps
  <2>1. pc = "maps" /\ pc' = "opendir" /\ rows' = rows /\ entries = <<>>
    BY <1>4, <1>9 DEF EndOfMaps
  <2>2. Exactly(rows, Before)
    <3>1. CASE proc \in Denied
      BY <1>4, <2>1, <3>1 DEF SectionSoFar, Before
    <3>2. CASE proc \notin Denied
      <4>1. PICK n \in 0..Len(Maps[proc]) :
                   /\ entries = SubSeq(Maps[proc], n + 1, Len(Maps[proc]))
                   /\ Exactly(rows, LinkedRows \cup MapRowsTo(n))
        BY <1>4, <2>1, <3>2 DEF SectionSoFar
      <4>2. n = Len(Maps[proc])
        <5>1. ASSUME n < Len(Maps[proc]) PROVE FALSE
          <6>1. \A i \in (n + 1)..Len(Maps[proc]) : Maps[proc][i] \in File
            BY <1>5, ElementOfSeq
          <6>2. Len(entries) = Len(Maps[proc]) - (n + 1) + 1
            BY <1>5, <4>1, <5>1, <6>1, SubSeqProperties
          <6>. QED BY <1>5, <2>1, <5>1, <6>2, EmptySeq
        <5>. QED BY <1>5, <5>1
      <4>3. MapRowsTo(n) = MapRows
        BY <1>5, <4>2 DEF MapRowsTo, MapRows
      <4>. QED BY <3>2, <4>1, <4>3 DEF Before
    <3>. QED BY <3>1, <3>2
  <2>. QED BY <1>1, <2>1, <2>2, SameWorld DEF SectionSoFar
<1>. QED BY <1>6, <1>7, <1>8, <1>9

\* The rows of a process whose descriptors hw1 must not see.
LEMMA DeniedRowsAre ==
    ASSUME TypeInv, life = "running", proc \in Denied
    PROVE  DeniedRows = LinkedRows \cup {[Row("NOFD") EXCEPT !.denied = TRUE]}
<1> DEFINE Line(fd) == [Row(fd) EXCEPT !.denied = TRUE,
                                       !.type = IF fd = "NOFD" THEN Blank ELSE "unknown"]
           last == [Row("NOFD") EXCEPT !.denied = TRUE]
<1>1. \A l \in Links : Line(l) = Linked(l)
  BY DEF Links, Linked
<1>2. Line("NOFD") = last
  <2>1. /\ Line("NOFD").fd = "NOFD" /\ Line("NOFD").mode = Blank /\ Line("NOFD").name = NoFile
        /\ Line("NOFD").node = NoNode /\ Line("NOFD").type = Blank /\ Line("NOFD").denied
        /\ Line("NOFD") \in FileInfo
    BY DEF Row, FileInfo, NoNode
  <2>2. /\ last.fd = "NOFD" /\ last.mode = Blank /\ last.name = NoFile
        /\ last.node = NoNode /\ last.type = Blank /\ last.denied /\ last \in FileInfo
    BY DEF Row, FileInfo, NoNode
  <2>. HIDE DEF Line, last
  <2>. QED BY <2>1, <2>2, SameRow
<1>3. DeniedRows = {Line(fd) : fd \in Links \cup {"NOFD"}}
  BY DEF DeniedRows
<1>. HIDE DEF Line, last
<1>4. DeniedRows = LinkedRows \cup {last}
  BY <1>1, <1>2, <1>3 DEF LinkedRows
<1>. QED BY <1>4 DEF last

\* The list that dump_info prints.
LEMMA DumpStarts ==
    ASSUME NEW S, Exactly(rows', S), printed' = <<>>, {r \in S : Wanted(r)'} = Section'
    PROVE  /\ IsInjective(rows)' /\ IsInjective(printed)'
           /\ (ToSet(rows) \cap ToSet(printed) = {})'
           /\ (ToSet(printed) \cup {r \in ToSet(rows) : Wanted(r)} = Section)'
<1>1. ToSet(printed') = {} /\ IsInjective(printed')
  BY DEF ToSet, IsInjective
<1>. QED BY <1>1 DEF Exactly

\* getfdinfo.
LEMMA DirUntroubled ==
    ASSUME TypeInv, TypeInv', Truth, Untroubled, GoesOn,
           OpenDir \/ ReadDir \/ GetMode \/ EndOfDir
    PROVE  Untroubled'
<1>. USE DEF TypeInv
<1>1. UNCHANGED <<life, table, had, proc, options>>
  BY DEF GoesOn, world
<1>2. printed = <<>> /\ printed' = printed
  BY DEF OpenDir, ReadDir, GetMode, EndOfDir, Shape, Idle
<1>3. LinksExact'
  <2>1. /\ pc' # "openmaps"
        /\ pc' \in AtFile => pc = "mode" /\ info'.fd = info.fd /\ info.fd \in Fd
    BY DEF OpenDir, ReadDir, GetMode, EndOfDir, Continue, AtFile, Shape, Partial
  <2>. QED BY <2>1, FdFacts DEF LinksExact, Links
<1>4. ASSUME Still, AtDir', \/ AtDir /\ rows' = rows /\ FdRowsRead' = FdRowsRead
                            \/ Exactly(rows', Before \cup FdRowsRead')
      PROVE  Exactly(rows, Before \cup FdRowsRead)'
  BY <1>4, SameWorld DEF Untroubled, SectionSoFar
<1>5. CASE OpenDir
  <2>1. pc = "opendir"
    BY <1>5 DEF OpenDir
  <2>2. CASE proc \in Denied \/ life = "gone"
    <3> DEFINE row == [Row("NOFD") EXCEPT !.denied = TRUE]
    <3>1. pc' = "dump" /\ rows' = Append(rows, row)
      BY <1>5, <2>2 DEF OpenDir
    <3>2. ASSUME Still
          PROVE  SectionSoFar'
      <4>1. life = "running" /\ proc \in Denied /\ Exactly(rows, LinkedRows)
        BY <2>1, <2>2, <3>2 DEF Still, Untroubled, SectionSoFar, Before
      <4>2. row \in FileInfo /\ row.fd = "NOFD"
        BY DEF Row, FileInfo, NoNode
      <4>3. \A r \in LinkedRows : r.fd \in Links
        BY <4>1, LinkFacts DEF LinkedRows
      <4>4. Exactly(rows', LinkedRows \cup {row})
        <5>1. row \notin LinkedRows
          <6>. HIDE DEF row
          <6>. QED BY <4>2, <4>3 DEF Links
        <5>. HIDE DEF row
        <5>. QED BY <3>1, <4>1, <4>2, <5>1, ExactlyAdded DEF TypeOK
      <4>5. {r \in LinkedRows \cup {row} : Wanted(r)} = Section
        BY <4>1, DeniedRowsAre DEF Section
      <4>6. {r \in LinkedRows \cup {row} : Wanted(r)'} = Section'
        <5>. HIDE DEF row
        <5>. QED BY <4>5, SameWorld
      <4>. HIDE DEF row
      <4>. QED BY <1>2, <3>1, <4>4, <4>6, DumpStarts DEF SectionSoFar, AtDir, AtFile
    <3>. QED BY <1>1, <1>3, <3>1, <3>2, SameWorld DEF Untroubled, AtDir, AtFile
  <2>3. CASE ~(proc \in Denied \/ life = "gone")
    <3> DEFINE opened == {d \in Fd : table[d] # Closed}
    <3>1. pc' = "readdir" /\ rows' = rows /\ entries' = SetToSeq(opened)
      BY <1>5, <2>3 DEF OpenDir
    <3>2. IsFiniteSet(opened)
      BY FdFacts, FS_Subset
    <3>3. \A d \in opened : Listed(d)'
      BY <3>1, <3>2, SetToSeqFacts DEF Listed
    <3>4. {e \in Fd : Readable(table[e]) /\ ~Listed(e) /\ ~InHand(e)}' = {}
      BY <1>1, <3>3 DEF Readable, Closed
    <3>5. FdRowsRead' = {}
      BY <3>4 DEF FdRowsRead
    <3>6. AtDir'
      BY <3>1 DEF AtDir
    <3>7. ASSUME Still
          PROVE  SectionSoFar'
      <4>1. Exactly(rows', Before)
        BY <2>1, <3>1, <3>7 DEF Untroubled, SectionSoFar
      <4>2. Exactly(rows, Before \cup FdRowsRead)'
        BY <1>4, <3>5, <3>6, <3>7, <4>1
      <4>. QED BY <3>1, <4>2 DEF SectionSoFar
    <3>. QED BY <1>1, <1>3, <2>3, <3>7, SameWorld DEF Untroubled
  <2>. QED BY <2>2, <2>3
<1>6. CASE ReadDir \/ GetMode
  <2>1. /\ AtDir /\ AtDir' /\ rows' = rows /\ pc' \in AtFile \cup {"mode", "readdir"}
    BY <1>6 DEF ReadDir, GetMode, Continue, AtDir, AtFile, Shape, Partial
  <2>2. {e \in Fd : Readable(table[e]) /\ ~Listed(e) /\ ~InHand(e)}' =
          {e \in Fd : Readable(table[e]) /\ ~Listed(e) /\ ~InHand(e)}
    <3>1. CASE ReadDir
      <4>1. /\ pc = "readdir" /\ pc' = "mode" /\ entries # <<>> /\ entries' = Tail(entries)
            /\ info' = Row(Head(entries)) /\ entries \in Seq(Fd)
        BY <3>1 DEF ReadDir, Shape
      <4>2. DOMAIN entries = 1..Len(entries) /\ Len(entries) \in Nat /\ Len(entries) >= 1
            /\ Head(entries) = entries[1] /\ DOMAIN Tail(entries) = 1..(Len(entries) - 1)
            /\ \A i \in 1..(Len(entries) - 1) : Tail(entries)[i] = entries[i + 1]
        BY <4>1, HeadTailProperties, LenProperties, EmptySeq
      <4>3. ASSUME NEW d
            PROVE  Listed(d) <=> Listed(d)' \/ d = Head(entries)
        <5>1. ASSUME NEW i \in DOMAIN entries, entries[i] = d, d # Head(entries)
              PROVE  Listed(d)'
          <6>1. i - 1 \in DOMAIN entries' /\ entries'[i - 1] = d
            BY <4>1, <4>2, <5>1
          <6>. QED BY <6>1 DEF Listed
        <5>2. ASSUME NEW i \in DOMAIN entries', entries'[i] = d
              PROVE  Listed(d)
          <6>1. i + 1 \in DOMAIN entries /\ entries[i + 1] = d
            BY <4>1, <4>2, <5>2
          <6>. QED BY <6>1 DEF Listed
        <5>3. Listed(Head(entries))
          BY <4>2 DEF Listed
        <5>. QED BY <5>1, <5>2, <5>3 DEF Listed
      <4>4. \A d : ~InHand(d) /\ (InHand(d)' <=> d = Head(entries))
        BY <4>1 DEF InHand, Row
      <4>. QED BY <1>1, <4>3, <4>4 DEF Readable
    <3>2. CASE GetMode
      <4>1. /\ pc = "mode" /\ entries' = entries /\ info'.fd = info.fd
            /\ pc' = "readdir" => ~Readable(table[info.fd])
        BY <3>2 DEF GetMode, Continue, Shape, Partial, Readable
      <4>2. \A d : (Listed(d)' <=> Listed(d)) /\ (InHand(d) <=> info.fd = d)
        BY <4>1 DEF Listed, InHand
      <4>3. \A d : (InHand(d)' <=> InHand(d)) \/ ~Readable(table[d])
        BY <4>1, <4>2 DEF InHand
      <4>. QED BY <1>1, <4>2, <4>3 DEF Readable
    <3>. QED BY <1>6, <3>1, <3>2
  <2>3. FdRowsRead' = FdRowsRead
    BY <1>1, <2>2 DEF FdRowsRead
  <2>4. ASSUME Still
        PROVE  SectionSoFar'
    BY <1>4, <2>1, <2>3, <2>4 DEF SectionSoFar, AtFile
  <2>. QED BY <1>1, <1>3, <2>1, <2>4, SameWorld DEF Untroubled
<1>7. CASE EndOfDir
  <2>1. pc = "readdir" /\ pc' = "dump" /\ entries = <<>> /\ rows' = rows /\ AtDir
    BY <1>7 DEF EndOfDir, AtDir
  <2>2. proc \notin Denied
    BY <2>1 DEF Untroubled
  <2>3. ASSUME Still
        PROVE  SectionSoFar'
    <3>1. \A d : ~Listed(d) /\ ~InHand(d)
      BY <2>1 DEF Listed, InHand
    <3>2. FdRowsRead = FdRows
      BY <3>1 DEF FdRowsRead, FdRows
    <3>3. LinkedRows = LinkRows
      BY <2>2 DEF LinkedRows, Linked, LinkRows
    <3>4. Exactly(rows', LinkRows \cup MapRows \cup FdRows)
      BY <2>1, <2>2, <2>3, <3>2, <3>3 DEF Untroubled, SectionSoFar, Before
    <3>5. {r \in LinkRows \cup MapRows \cup FdRows : Wanted(r)'} = Section'
      BY <2>2, SameWorld DEF Section
    <3>. QED BY <1>2, <2>1, <3>4, <3>5, DumpStarts DEF SectionSoFar, AtDir, AtFile
  <2>. QED BY <1>1, <1>3, <2>1, <2>3, SameWorld DEF Untroubled, AtDir, AtFile
<1>. QED BY <1>5, <1>6, <1>7

\* dump_info.
LEMMA DumpUntroubled ==
    ASSUME TypeInv, Filtered, Untroubled, GoesOn, Dump
    PROVE  Untroubled'
<1>. USE DEF TypeInv
<1>1. /\ pc = "dump" /\ pc' = "dump" /\ rows # <<>> /\ rows' = Tail(rows)
      /\ printed' = IF valid_finfo(Head(rows)) THEN Append(printed, Head(rows)) ELSE printed
  BY DEF Dump, Abort, Leave, GoesOn, Idle
<1>2. /\ Head(rows) \in FileInfo /\ rows \in Seq(FileInfo) /\ printed \in Seq(FileInfo)
  BY <1>1, HeadTailProperties DEF TypeOK, Shape
<1>3. valid_finfo(Head(rows)) <=> Wanted(Head(rows))
  BY <1>1, ValidIsAsked DEF valid_finfo, Wanted, Filtered, Idle
<1>4. ASSUME Still
      PROVE  SectionSoFar'
  <2> DEFINE r == Head(rows)
             R == ToSet(rows)
             P == ToSet(printed)
  <2>1. /\ IsInjective(rows) /\ IsInjective(printed) /\ R \cap P = {}
        /\ P \cup {q \in R : Wanted(q)} = Section
    BY <1>1, <1>4 DEF Untroubled, SectionSoFar
  <2>2. IsInjective(rows') /\ r \notin ToSet(rows') /\ R = {r} \cup ToSet(rows')
    BY <1>1, <1>2, <2>1, ExactlyTaken
  <2>3. IsInjective(printed') /\ ToSet(printed') = IF Wanted(r) THEN P \cup {r} ELSE P
    <3>1. Exactly(printed, P)
      BY <2>1 DEF Exactly
    <3>2. r \notin P /\ r \in FileInfo
      BY <1>2, <2>1, <2>2
    <3>3. Exactly(Append(printed, r), P \cup {r})
      <4>. HIDE DEF r, P
      <4>. QED BY <1>2, <3>1, <3>2, ExactlyAdded
    <3>. QED BY <1>1, <1>3, <2>1, <3>3 DEF Exactly
  <2>4. ToSet(rows') \cap ToSet(printed') = {}
    <3>. HIDE DEF r, R, P
    <3>. QED BY <2>1, <2>2, <2>3
  <2>5. ToSet(printed') \cup {q \in ToSet(rows') : Wanted(q)} = Section
    <3>. HIDE DEF r, R, P
    <3>. QED BY <2>1, <2>2, <2>3
  <2>6. (ToSet(printed) \cup {q \in ToSet(rows) : Wanted(q)})' = Section'
    <3>. HIDE DEF r, R, P
    <3>. QED BY <2>5, SameWorld
  <2>. QED BY <1>1, <2>2, <2>3, <2>4, <2>6 DEF SectionSoFar, AtDir, AtFile
<1>. QED BY <1>1, <1>4, SameWorld DEF Untroubled, GoesOn, LinksExact, AtDir, AtFile

\* A process that changes is not still any longer, but its links lead where
\* they did.
LEMMA ProcessUntroubled ==
    ASSUME TypeInv, Truth, Untroubled, Process \/ UNCHANGED vars
    PROVE  Untroubled'
<1>1. UNCHANGED <<pc, info, rows, entries, printed, proc, options>>
  BY DEF Process, Ends, Reaped, Closes, Opens, Becomes, vars, arguments
<1>2. life' = "running" => life = "running"
  BY DEF Process, Ends, Reaped, Closes, Opens, Becomes, vars, world
<1>3. LinksExact'
  BY <1>1, <1>2 DEF Untroubled, LinksExact, PartlyLinked, Linked, LinkRow, NodeOf, TypeOf, AtFile
<1>4. ASSUME NEW d \in Fd, pc \notin Idle, had'[d] = {table'[d]}
      PROVE  had[d] = {table[d]} /\ table'[d] = table[d]
  <2>1. CASE UNCHANGED <<table, had>>
    BY <1>4, <2>1
  <2>2. ASSUME NEW now, Becomes(now)
        PROVE  had[d] = {table[d]} /\ table'[d] = table[d]
    <3>1. had'[d] = had[d] \cap {now[d]} /\ table' = now
      BY <2>2 DEF Becomes
    <3>2. had[d] \subseteq {table[d]}
      BY <1>4 DEF Truth
    <3>. QED BY <1>4, <3>1, <3>2
  <2>. QED BY <2>1, <2>2 DEF Process, Ends, Reaped, Closes, Opens, vars, world
<1>5. ASSUME Still', pc \notin Idle
      PROVE  Still /\ \A d \in Fd : table'[d] = table[d]
  BY <1>2, <1>4, <1>5 DEF Still
<1>6. ASSUME Still'
      PROVE  SectionSoFar'
  <2>1. CASE pc \in Idle
    BY <1>1, <2>1 DEF SectionSoFar, Idle, AtDir, AtFile
  <2>2. CASE pc \notin Idle
    <3>1. Still /\ SectionSoFar /\ \A d \in Fd : table'[d] = table[d]
      BY <1>5, <1>6, <2>2 DEF Untroubled
    <3>2. /\ LinkedRows' = LinkedRows /\ MapRows' = MapRows
          /\ \A n : MapRowsTo(n)' = MapRowsTo(n)
      BY <1>1 DEF LinkedRows, Linked, LinkRow, MapRows, MapRowsTo, MapRow, NewMap, NodeOf, TypeOf
    <3>3. Before' = Before
      BY <1>1, <3>2 DEF Before
    <3>4. FdRowsRead' = FdRowsRead
      BY <1>1, <3>1 DEF FdRowsRead, Readable, Listed, InHand
    <3>5. FdRows' = FdRows /\ LinkRows' = LinkRows
      BY <1>1, <3>1 DEF FdRows, Readable, LinkRows, LinkRow, NodeOf, TypeOf
    <3>6. (\A r : Wanted(r)' <=> Wanted(r)) /\ (AtDir' <=> AtDir)
      BY <1>1 DEF Wanted, Asked, AtDir
    <3>7. Section' = Section
      BY <1>1, <3>2, <3>5, <3>6 DEF Section
    <3>. QED BY <1>1, <3>1, <3>2, <3>3, <3>4, <3>6, <3>7 DEF SectionSoFar
  <2>. QED BY <2>1, <2>2
<1>7. (AtDir => proc \notin Denied)'
  BY <1>1 DEF AtDir, Untroubled
<1>. QED BY <1>3, <1>6, <1>7 DEF Untroubled

\* A process is found, or left.
LEMMA FoundUntroubled ==
    ASSUME TypeInv, Untroubled,
           NextProcess \/ (Scan /\ pc' \in Idle)
    PROVE  Untroubled'
<1>1. ~AtDir' /\ pc' \in Idle \cup {"command"}
  BY DEF NextProcess, Idle, AtDir, AtFile
<1>. QED BY <1>1 DEF Untroubled, LinksExact, SectionSoFar, AtFile, Idle

LEMMA NextUntroubled ==
    OthersInv /\ OthersInv' /\ Untroubled /\ [Next]_vars => Untroubled'
<1>. SUFFICES ASSUME OthersInv, OthersInv', Untroubled, [Next]_vars
              PROVE  Untroubled'
  OBVIOUS
<1>. USE DEF OthersInv
<1>1. CASE Process \/ Finished \/ UNCHANGED vars
  BY <1>1, ProcessUntroubled DEF Finished
<1>2. CASE NextProcess \/ (Scan /\ pc' \in Idle)
  BY <1>2, FoundUntroubled
<1>3. CASE Scan /\ pc' \notin Idle /\ ~NextProcess
  <2>1. \/ GetCommand \/ GetUserName \/ OpenMaps \/ ParseMaps \/ EndOfMaps
        \/ ReadLink \/ LStat \/ GetINode \/ GetType
        \/ OpenDir \/ ReadDir \/ GetMode \/ EndOfDir \/ Dump
    BY <1>3 DEF Scan, ParseFilter, EndOfProc, EndOfDump, Return, Leave, Idle
  <2>2. GoesOn
    BY <1>3, <2>1 DEF GoesOn, Idle, GetCommand, GetUserName, OpenMaps, ParseMaps, EndOfMaps,
                      ReadLink, LStat, GetINode, GetType, OpenDir, ReadDir, GetMode, EndOfDir,
                      Dump, Return, Abort, Leave, arguments, world
  <2>. QED BY <2>1, <2>2, BeforeUntroubled, FileUntroubled, DirUntroubled, DumpUntroubled
<1>. QED BY <1>1, <1>2, <1>3 DEF Next

LEMMA SteadyUntroubled == Spec => [](OthersInv /\ Untroubled)
<1>1. Init => Untroubled
  BY DEF Init, Untroubled, LinksExact, SectionSoFar, AtDir, AtFile
<1>. QED BY <1>1, SteadyOthers, NextUntroubled, PTL DEF Spec

(***************************************************************************)
(* A process that stays as it is while it is looked at is printed as if it *)
(* had been looked at in a single moment: each of its links, maps and open *)
(* files that the filters ask for once, and nothing else.                  *)
(***************************************************************************)
THEOREM UntouchedIsPrintedExactly == Spec => UntouchedExact
<1>1. ASSUME OthersInv, Untroubled, [Next]_vars, Leaving, Untouched, DescriptorFree
      PROVE  ToSet(printed') = Section /\ Len(printed') = Cardinality(Section)
  <2>. USE <1>1 DEF OthersInv, TypeInv
  <2>1. pc \notin Idle /\ printed' = printed /\ life = "running" /\ printed \in Seq(FileInfo)
    BY Returns DEF Untouched, Shape
  <2>2. Still
    <3>1. ASSUME NEW d \in Fd
          PROVE  had[d] = {table[d]}
      BY <2>1, <3>1 DEF Truth, Untouched
    <3>. QED BY <2>1, <3>1 DEF Still
  <2>3. CASE GetCommand
    BY <2>1, <2>3 DEF GetCommand, Leaving
  <2>4. CASE GetUserName
    <3>1. pc = "user" /\ printed = <<>> /\ ~valid_param(Command[proc], filter["c"])
      BY <2>1, <2>4 DEF GetUserName, Leaving, Abort, Leave, Shape, Idle
    <3>2. ~Asked("c", Command[proc])
      BY <3>1, ValidIsAsked
    <3>3. Section = {}
      BY <3>2 DEF Section, Wanted
    <3>. QED BY <2>1, <3>1, <3>3, FS_EmptySet DEF ToSet
  <2>5. ~LStat
    <3>1. ASSUME LStat
          PROVE  FALSE
      <4>1. pc = "lstat" /\ info.fd \in Links \cup Fd
        BY <3>1 DEF LStat, Shape, AtFile
      <4>2. CASE info.fd \in Links
        BY <2>1, <3>1, <4>2 DEF LStat, Exists, Leaving
      <4>3. CASE info.fd \in Fd
        <5>1. AtDir /\ proc \notin Denied
          BY <4>1, <4>3 DEF AtDir, AtFile, Untroubled
        <5>2. Reading(info.fd, table[info.fd])
          BY <2>1, <2>2, <4>3, <5>1 DEF Still, Settled, Others, Followed
        <5>. QED BY <4>1, <5>2 DEF Reading, InHand, PartlyRead
      <4>. QED BY <4>1, <4>2, <4>3
    <3>. QED BY <3>1
  <2>6. CASE EndOfDump
    <3>1. pc = "dump" /\ ToSet(rows) = {}
      BY <2>6 DEF EndOfDump, ToSet
    <3>2. IsInjective(printed) /\ ToSet(printed) = Section
      BY <2>2, <3>1 DEF Untroubled, SectionSoFar
    <3>. QED BY <2>1, <3>2, ExactlyCounted
  <2>. QED BY <2>3, <2>4, <2>5, <2>6, Returns
<1>2. OthersInv /\ Untroubled /\ [Next]_vars =>
        [Leaving /\ Untouched /\ DescriptorFree =>
           ToSet(printed') = Section /\ Len(printed') = Cardinality(Section)]_vars
  BY <1>1
<1>. QED BY <1>2, SteadyUntroubled, PTL DEF Spec, UntouchedExact
=============================================================================
