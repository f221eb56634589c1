------------------------- MODULE ArchiveStoreProofs -------------------------
(***************************************************************************)
(* What the three calls that share a directory of archives do to it and    *)
(* say of it, for any archives, exporters, policies and steps of another   *)
(* program.                                                                *)
(***************************************************************************)
EXTENDS ArchiveStore, SequenceTheorems, FiniteSetTheorems, WellFoundedInduction, TLAPS

(***************************************************************************)
(* What the position of a pass says of its lists: it reads a file whose    *)
(* stat it holds, and unlinks a candidate.                                 *)
(***************************************************************************)
Listed ==
  /\ Retention("read") => seen.identity \in Identities
  /\ Retention("unlink") => removal_candidates # <<>>

----------------------------------------------------------------------------
(* Type correctness.                                                       *)

FilesTyped ==
  /\ directory \in [Name -> Inode \cup {Absent}]
  /\ content \in [Inode -> Content] /\ mtime \in [Inode -> Nat] /\ ctime \in [Inode -> Nat]
PassTyped ==
  /\ policy \in Policies /\ todo \subseteq Name
  /\ retention \in {"list", "stat", "read", "rank", "fill", "recheck", "unlink", "done"}
  /\ seen \in [mtime : Nat, identity : Identities \cup {<<Absent, 0>>}]
  /\ eligible \subseteq Items /\ duplicates \subseteq Items /\ kept \subseteq Items
  /\ removal_candidates \in Seq(Items)
ExportTyped ==
  /\ durable \in [Exporter -> BOOLEAN]
  /\ exporting \in [Exporter -> {"check", "stage", "write", "fsync", "look", "link", "confirm",
                                 "clean up", "dir_fsync", "over", "killed"}]
  /\ published \in [Exporter -> [file : Inode, archive : Content] \cup {Unpublished}]
  /\ outcome \in [Exporter -> {"none", "returned", "raised", "fsync", "dir_fsync"}]
ReplayTyped ==
  /\ replaying \in {"read", "run", "ran", "refused"} /\ pinned \in BOOLEAN
  /\ witness \in Items \cup {NoItem} /\ snapshot \in Content
MeddlingTyped == meddling \in 0..MaxMeddling

LEMMA Parts ==
  TypeOK <=> FilesTyped /\ PassTyped /\ ExportTyped /\ ReplayTyped /\ MeddlingTyped
BY DEF TypeOK, FilesTyped, PassTyped, ExportTyped, ReplayTyped, MeddlingTyped

\* The files are of three kinds, and none of them is Absent.
LEMMA Inodes ==
  /\ Absent \notin Inode
  /\ \A n \in Final : First(n) \in Inode
  /\ \A e \in Exporter : Staged(e) \in Inode
  /\ \A k \in 1..MaxMeddling : Other(k) \in Inode
BY DEF Inode, Absent, First, Staged, Other

\* What taking the head of a list does.
LEMMA Taking ==
  ASSUME NEW S, NEW list \in Seq(S), list # <<>>
  PROVE  /\ Head(list) \in S /\ Tail(list) \in Seq(S)
         /\ \A i \in DOMAIN Tail(list) : \E j \in DOMAIN list : Tail(list)[i] = list[j]
<1>1. Len(list) \in Nat /\ Len(list) > 0 /\ DOMAIN list = 1..Len(list)
  BY EmptySeq
<1>2. Head(list) = list[1] /\ Head(list) \in S
  BY <1>1
<1>3. Tail(list) \in Seq(S) /\ Len(Tail(list)) = Len(list) - 1
      /\ \A i \in 1..(Len(list) - 1) : Tail(list)[i] = list[i + 1]
  BY <1>1
<1> QED
  BY <1>1, <1>2, <1>3

\* What appending to a list does.
LEMMA Appending ==
  ASSUME NEW S, NEW list \in Seq(S), NEW e \in S
  PROVE  /\ Append(list, e) \in Seq(S)
         /\ {Append(list, e)[i] : i \in DOMAIN Append(list, e)} = {list[i] : i \in DOMAIN list} \cup {e}
<1>1. /\ Append(list, e) \in Seq(S) /\ Len(list) \in Nat /\ DOMAIN list = 1..Len(list)
      /\ DOMAIN Append(list, e) = 1..(Len(list) + 1)
      /\ Append(list, e)[Len(list) + 1] = e
      /\ \A i \in 1..Len(list) : Append(list, e)[i] = list[i]
  OBVIOUS
<1> QED
  BY <1>1

LEMMA FileSystemTypes ==
  ASSUME TypeOK
  PROVE  /\ \A F : Touched(F) \in [Inode -> Nat]
         /\ \A n \in Name : ContentAt(n) \in Content
         /\ \A n \in Name : Unlink(n) => /\ directory' \in [Name -> Inode \cup {Absent}]
                                         /\ ctime' \in [Inode -> Nat]
<1>1. directory \in [Name -> Inode \cup {Absent}] /\ content \in [Inode -> Content]
      /\ ctime \in [Inode -> Nat]
  BY DEF TypeOK
<1> QED
  BY <1>1 DEF Touched, ContentAt, Exists, Content, Unlink

\* The types are inductive together with what the position of a pass says.
Typed == TypeOK /\ Listed
LEMMA WellTyped == Spec => []Typed
<1>1. Init => Typed
  <2> SUFFICES ASSUME Init PROVE TypeOK /\ Listed
    BY DEF Typed
  <2>1. /\ directory \in [Name -> Inode \cup {Absent}]
        /\ content \in [Inode -> Content] /\ mtime \in [Inode -> Nat] /\ ctime \in [Inode -> Nat]
    <3> PICK choice \in [Final -> Content \cup {"absent"}] :
          /\ \A n \in Final : choice[n] \in Initial[n]
          /\ directory = [n \in Name |-> IF n \in Final /\ choice[n] # "absent"
                                         THEN First(n) ELSE Absent]
          /\ content = [f \in Inode |->
                          IF \E n \in Final : f = First(n) /\ choice[n] # "absent"
                          THEN choice[f[2]] ELSE Malformed]
      BY DEF Init
    <3>1. \A n \in Final : First(n)[2] = n
      BY DEF First
    <3>2. content \in [Inode -> Content]
      <4> SUFFICES ASSUME NEW f \in Inode,
                          \E n \in Final : f = First(n) /\ choice[n] # "absent"
                   PROVE  choice[f[2]] \in Content
        BY DEF Content
      <4> QED
        BY <3>1
    <3>3. mtime \in [Inode -> Nat]
      BY <3>1, ContentAssumption DEF Init
    <3> QED
      BY <3>2, <3>3, Inodes DEF Init
  <2>2. retention = "list"
    BY DEF Init
  <2>3. NotSeen \in [mtime : Nat, identity : Identities \cup {<<Absent, 0>>}]
    BY DEF NotSeen
  <2>4. PassTyped
    BY <2>2, <2>3 DEF Init, PassTyped
  <2>5. ExportTyped
    BY DEF Init, ExportTyped
  <2>6. ReplayTyped /\ MeddlingTyped
    <3>1. 0 \in 0..MaxMeddling /\ Malformed \in Content
      BY ContentAssumption DEF Content
    <3> QED
      BY <3>1 DEF Init, ReplayTyped, MeddlingTyped
  <2> QED
    BY <2>1, <2>2, <2>4, <2>5, <2>6, Parts DEF FilesTyped, Listed, Retention
<1>2. Typed /\ [Next]_vars => Typed'
  <2> SUFFICES ASSUME TypeOK, Listed, [Next]_vars PROVE Typed'
    BY DEF Typed
  <2>0. FilesTyped /\ PassTyped /\ ExportTyped /\ ReplayTyped /\ MeddlingTyped
    BY Parts
  <2>1. /\ UNCHANGED files => FilesTyped'
        /\ UNCHANGED pass => PassTyped' /\ Listed'
        /\ UNCHANGED export => ExportTyped'
        /\ UNCHANGED replay => ReplayTyped'
        /\ UNCHANGED meddling => MeddlingTyped'
    <3>1. UNCHANGED files => FilesTyped'
      BY <2>0 DEF files, FilesTyped
    <3>2. UNCHANGED pass => PassTyped' /\ Listed'
      BY <2>0 DEF pass, PassTyped, Listed, Retention
    <3>3. UNCHANGED export => ExportTyped'
      BY <2>0 DEF export, ExportTyped
    <3>4. UNCHANGED replay => ReplayTyped'
      BY <2>0 DEF replay, ReplayTyped
    <3> QED
      BY <2>0, <3>1, <3>2, <3>3, <3>4 DEF MeddlingTyped
  <2>2. ASSUME FilesTyped', PassTyped', Listed', ExportTyped', ReplayTyped', MeddlingTyped'
        PROVE  Typed'
    <3>1. TypeOK'
      BY <2>2 DEF TypeOK, FilesTyped, PassTyped, ExportTyped, ReplayTyped, MeddlingTyped
    <3> QED
      BY <2>2, <3>1 DEF Typed
  <2>3. CASE UNCHANGED vars
    BY <2>1, <2>2, <2>3 DEF vars
  <2>4. CASE Retain
    <3> SUFFICES PassTyped' /\ Listed' /\ FilesTyped' /\ UNCHANGED <<export, replay, meddling>>
      BY <2>1, <2>2
    <3>0. /\ directory \in [Name -> Inode \cup {Absent}] /\ mtime \in [Inode -> Nat]
          /\ ctime \in [Inode -> Nat]
      BY <2>0 DEF FilesTyped
    <3>1. CASE List
      <4>1. FilesTyped'
        BY <2>1, <3>1 DEF List
      <4> QED
        BY <2>0, <3>1, <4>1 DEF List, Retention, Then, PassTyped, Listed
    <3>2. ASSUME NEW n \in todo, Stat(n)
          PROVE  PassTyped' /\ Listed' /\ FilesTyped' /\ UNCHANGED <<export, replay, meddling>>
      <4>1. n \in Name
        BY <2>0 DEF PassTyped
      <4> DEFINE f == directory[n]
      <4>2. CASE f = Absent
        <5>1. todo' = todo \ {n} /\ UNCHANGED <<retention, seen>> /\ retention = "stat"
          BY <3>2, <4>2 DEF Stat, Retention
        <5> QED
          BY <2>0, <2>1, <3>2, <4>1, <5>1 DEF Stat, PassTyped, Listed, Retention
      <4>3. CASE f # Absent
        <5>1. /\ seen' = [mtime |-> mtime[f], identity |-> Identity(f)]
              /\ retention' = "read" /\ UNCHANGED todo
          BY <3>2, <4>3 DEF Stat, Then
        <5>2. f \in Inode /\ mtime[f] \in Nat /\ Identity(f) \in Identities
          BY <3>0, <4>1, <4>3 DEF Identity, Identities
        <5> HIDE DEF f
        <5>3. seen' \in [mtime : Nat, identity : Identities \cup {<<Absent, 0>>}]
              /\ seen'.identity \in Identities
          BY <5>1, <5>2
        <5> QED
          BY <2>0, <2>1, <3>2, <5>1, <5>3 DEF Stat, PassTyped, Listed, Retention
      <4> QED
        BY <4>2, <4>3
    <3>3. ASSUME NEW n \in todo, Read(n)
          PROVE  PassTyped' /\ Listed' /\ FilesTyped' /\ UNCHANGED <<export, replay, meddling>>
      <4>1. n \in Name /\ seen.identity \in Identities
        BY <2>0, <3>3 DEF Read, PassTyped, Listed
      <4> DEFINE x == [name |-> n, mtime |-> seen.mtime, archive |-> ContentAt(n),
                       identity |-> seen.identity]
      <4>2. x.archive \in Archive => x \in Items
        BY <2>0, <4>1 DEF PassTyped, Items
      <4>3. eligible' = eligible \cup {y \in {x} : y.archive \in Archive}
        BY <3>3 DEF Read
      <4> HIDE DEF x
      <4>4. eligible' \subseteq Items
        BY <2>0, <4>2, <4>3 DEF PassTyped
      <4>5. NotSeen \in [mtime : Nat, identity : Identities \cup {<<Absent, 0>>}]
        BY DEF NotSeen
      <4> QED
        BY <2>0, <2>1, <3>3, <4>1, <4>4, <4>5 DEF Read, PassTyped, Listed, Retention, Then
    <3>4. CASE StartRanking
      BY <2>0, <2>1, <3>4 DEF StartRanking, PassTyped, Listed, Retention, Then
    <3>5. ASSUME NEW x \in eligible, Rank(x)
          PROVE  PassTyped' /\ Listed' /\ FilesTyped' /\ UNCHANGED <<export, replay, meddling>>
      <4>1. x \in Items /\ Append(removal_candidates, x) \in Seq(Items)
        BY <2>0 DEF PassTyped
      <4>2. /\ duplicates' \in {duplicates, duplicates \cup {x}} /\ kept' \in {kept, kept \cup {x}}
            /\ removal_candidates' \in {removal_candidates, Append(removal_candidates, x)}
            /\ eligible' = eligible \ {x}
        BY <3>5 DEF Rank
      <4>3. UNCHANGED <<policy, retention, todo, seen>> /\ retention \in {"rank", "fill"}
        BY <3>5 DEF Rank
      <4>4. PassTyped'
        BY <2>0, <4>1, <4>2, <4>3 DEF PassTyped
      <4> QED
        BY <2>1, <3>5, <4>3, <4>4 DEF Rank, Listed, Retention
    <3>6. CASE EndPass
      BY <2>0, <2>1, <3>6 DEF EndPass, PassTyped, Listed, Retention, Then
    <3>7. CASE Recheck
      <4>1. Candidate \in Items /\ Tail(removal_candidates) \in Seq(Items)
            /\ removal_candidates # <<>>
        BY <2>0, <3>7, Taking DEF Recheck, PassTyped, Candidate
      <4>2. \/ retention' = "unlink" /\ UNCHANGED removal_candidates
            \/ retention' = "recheck" /\ removal_candidates' = Tail(removal_candidates)
        BY <3>7 DEF Recheck, Retention, Then
      <4> QED
        BY <2>0, <2>1, <3>7, <4>1, <4>2 DEF Recheck, PassTyped, Listed, Retention
    <3>8. CASE Remove
      <4>1. Candidate \in Items /\ Tail(removal_candidates) \in Seq(Items)
        BY <2>0, <3>8, Taking DEF Remove, Listed, PassTyped, Candidate
      <4>2. Candidate.name \in Name
        BY <4>1 DEF Items
      <4>3. FilesTyped'
        BY <2>0, <3>8, <4>2, FileSystemTypes DEF Remove, FilesTyped
      <4> QED
        BY <2>0, <3>8, <4>1, <4>3 DEF Remove, PassTyped, Listed, Retention, Then
    <3>9. CASE Report
      BY <2>0, <2>1, <3>9 DEF Report, PassTyped, Listed, Retention, Then
    <3> QED
      BY <2>4, <3>1, <3>2, <3>3, <3>4, <3>5, <3>6, <3>7, <3>8, <3>9 DEF Retain
  <2>5. CASE Replay
    <3>1. UNCHANGED <<files, pass, export, meddling>> /\ ReplayTyped'
      <4>1. ASSUME NEW x \in kept, ReadArchive(x) PROVE ReplayTyped'
        <5>1. x \in Items /\ x.name \in Name
          BY <2>0 DEF PassTyped, Items
        <5>2. ContentAt(x.name) \in Content
          BY <5>1, FileSystemTypes
        <5> QED
          BY <2>0, <4>1, <5>1, <5>2 DEF ReadArchive, ReplayTyped
      <4>2. Run => ReplayTyped'
        BY <2>0 DEF Run, ReplayTyped
      <4> QED
        BY <2>5, <4>1, <4>2 DEF Replay, ReadArchive, Run
    <3> QED
      BY <2>1, <2>2, <3>1
  <2>6. CASE OtherProgram
    <3> SUFFICES FilesTyped' /\ MeddlingTyped' /\ UNCHANGED <<pass, export, replay>>
      BY <2>1, <2>2
    <3>1. Meddle => meddling' \in 1..MaxMeddling /\ Other(meddling') \in Inode
      BY <2>0, ContentAssumption, Inodes DEF Meddle, MeddlingTyped
    <3>2. Foreign \subseteq Content /\ Now \in Nat
      BY ContentAssumption DEF Content
    <3>3. ASSUME NEW n \in Name, Delete(n)
          PROVE  FilesTyped' /\ MeddlingTyped' /\ UNCHANGED <<pass, export, replay>>
      BY <2>0, <3>1, <3>3, FileSystemTypes DEF Delete, FilesTyped, MeddlingTyped
    <3>4. ASSUME NEW n \in Name, NEW c \in Foreign, Replace(n, c)
          PROVE  FilesTyped' /\ MeddlingTyped' /\ UNCHANGED <<pass, export, replay>>
      <4>1. Other(meddling') \in Inode /\ meddling' \in 1..MaxMeddling
        BY <3>1, <3>4 DEF Replace
      <4> QED
        BY <2>0, <3>2, <3>4, <4>1, FileSystemTypes DEF Replace, FilesTyped, MeddlingTyped
    <3>5. ASSUME NEW n \in Final, NEW c \in Foreign, Rewrite(n, c)
          PROVE  FilesTyped' /\ MeddlingTyped' /\ UNCHANGED <<pass, export, replay>>
      <4>1. directory[n] \in Inode /\ meddling' \in 1..MaxMeddling
        BY <2>0, <3>1, <3>5 DEF Rewrite, Exists, FilesTyped, Name
      <4> QED
        BY <2>0, <3>2, <3>5, <4>1, FileSystemTypes DEF Rewrite, FilesTyped, MeddlingTyped
    <3> QED
      BY <2>6, <3>3, <3>4, <3>5 DEF OtherProgram
  <2>7. ASSUME NEW e \in Exporter, Export(e) PROVE Typed'
    <3> SUFFICES FilesTyped' /\ ExportTyped' /\ UNCHANGED <<pass, replay, meddling>>
      BY <2>1, <2>2
    <3>1. CASE Check(e) \/ FileSync(e) \/ Look(e) \/ Confirm(e) \/ DirectorySync(e) \/ Kill(e)
      BY <2>0, <2>1, <3>1
      DEF Check, FileSync, Look, Confirm, DirectorySync, Kill, ExportTyped, Go, Ended, Raise
    <3>2. CASE Stage(e)
      BY <2>0, <3>2, Inodes DEF Stage, FilesTyped, ExportTyped, Go, Name
    <3>3. CASE Write(e)
      <4>1. FilesTyped'
        BY <2>0, <3>3, Inodes, FileSystemTypes, ContentAssumption DEF Write, FilesTyped, Content
      <4> QED
        BY <2>0, <3>3, <4>1 DEF Write, ExportTyped, Go, Ended, Raise
    <3>4. CASE Link(e)
      <4> DEFINE f == directory[e]
      <4>1. CASE CanLink(e)
        <5>1. f \in Inode /\ content[f] \in Content /\ Target[e] \in Name
          BY <2>0, <4>1, NamesAssumption DEF CanLink, Exists, FilesTyped, Name
        <5>2. [file |-> f, archive |-> content[f]] \in [file : Inode, archive : Content]
          BY <5>1
        <5>3. /\ directory' = [directory EXCEPT ![Target[e]] = f] /\ ctime' = Touched({f})
              /\ published' = [published EXCEPT ![e] = [file |-> f, archive |-> content[f]]]
              /\ exporting' = [exporting EXCEPT ![e] = "confirm"] /\ UNCHANGED outcome
              /\ UNCHANGED <<content, mtime, pass, replay, durable, meddling>>
          BY <3>4, <4>1 DEF Link, Go
        <5> HIDE DEF f
        <5>4. FilesTyped'
          BY <2>0, <5>1, <5>3, FileSystemTypes DEF FilesTyped
        <5>5. ExportTyped'
          BY <2>0, <5>2, <5>3 DEF ExportTyped
        <5> QED
          BY <5>3, <5>4, <5>5
      <4>2. CASE ~CanLink(e)
        BY <2>0, <3>4, <4>2 DEF Link, FilesTyped, ExportTyped, Go, Ended, Raise
      <4> QED
        BY <4>1, <4>2
    <3>5. CASE CleanUp(e)
      <4>1. FilesTyped'
        BY <2>0, <3>5, FileSystemTypes DEF CleanUp, FilesTyped, Name
      <4> QED
        BY <2>0, <3>5, <4>1 DEF CleanUp, ExportTyped, Go, Ended
    <3> QED
      BY <2>7, <3>1, <3>2, <3>3, <3>4, <3>5 DEF Export
  <2> QED
    BY <2>3, <2>4, <2>5, <2>6, <2>7 DEF Next
<1> QED
  BY <1>1, <1>2, PTL DEF Spec

\* The state of the directory and of every call stays within its types.
THEOREM TypeCorrect == Spec => []TypeOK
<1>1. Typed => TypeOK
  BY DEF Typed
<1> QED
  BY <1>1, WellTyped, PTL

----------------------------------------------------------------------------
(* What a file identity is worth.                                          *)

\* Nobody has made the file yet.
Fresh(f) ==
  \/ \E e \in Exporter : f = Staged(e) /\ exporting[e] \in {"check", "stage"}
  \/ \E k \in 1..MaxMeddling : f = Other(k) /\ k > meddling
NamesAreMade == \A n \in Name : ~Fresh(directory[n])

(***************************************************************************)
(* While a file keeps the ctime that was seen, and is still the one its    *)
(* name names, its bytes are the ones read: what writes, links or unlinks  *)
(* it in between moves its ctime, and a name is not given back to it       *)
(* without a link.  So an item vouches for content it was not read from,   *)
(* as when another program swapped the file between the stat and the read: *)
(* the identity of such an item never matches again.                       *)
(***************************************************************************)
Seen(identity) ==
  identity[1] \in Inode /\ ~Fresh(identity[1]) /\ identity[2] <= ctime[identity[1]]
StillThere(name, identity) ==
  directory[name] = identity[1] /\ ctime[identity[1]] = identity[2]
Vouched(x) ==
  Seen(x.identity) /\ (StillThere(x.name, x.identity) => content[x.identity[1]] = x.archive)

Items_read == eligible \cup duplicates \cup kept \cup Dropped
Trusted ==
  /\ NamesAreMade
  /\ Retention("read") => Seen(seen.identity)
  /\ \A x \in Items_read : Vouched(x)

\* No step unmakes a file; none changes what a file holds, or gives it a name, without
\* giving it a new ctime.
Ages ==
  \A f \in Inode : ~Fresh(f) =>
    /\ ~Fresh(f)' /\ ctime[f] <= ctime'[f]
    /\ ctime'[f] = ctime[f] =>
         content'[f] = content[f] /\ \A n \in Name : directory'[n] = f => directory[n] = f

LEMMA OnceMade ==
  ASSUME TypeOK, [Next]_vars
  PROVE  \A f : ~Fresh(f) => ~Fresh(f)'
<1>1. meddling' \in Nat /\ meddling \in Nat /\ meddling' >= meddling
  <2>1. meddling \in Nat /\ (Meddle => meddling' = meddling + 1)
    BY ContentAssumption, Parts DEF MeddlingTyped, Meddle
  <2>2. UNCHANGED meddling \/ Meddle
    BY DEF Next, Retain, List, Stat, Read, StartRanking, Rank, EndPass, Recheck, Remove, Report,
           Replay, ReadArchive, Run, OtherProgram, Replace, Delete, Rewrite, Export, Check, Stage,
           Write, FileSync, Look, Link, Confirm, CleanUp, DirectorySync, Kill, vars
  <2> QED
    BY <2>1, <2>2
<1>2. ASSUME NEW e \in Exporter, exporting'[e] \in {"check", "stage"}
      PROVE  exporting[e] \in {"check", "stage"}
  <2>1. exporting \in [Exporter -> {"check", "stage", "write", "fsync", "look", "link", "confirm",
                                    "clean up", "dir_fsync", "over", "killed"}]
    BY DEF TypeOK
  <2>2. ASSUME NEW d \in Exporter, Export(d) PROVE exporting[e] \in {"check", "stage"}
    <3>1. exporting' = [exporting EXCEPT ![d] = exporting'[d]]
          /\ (exporting'[d] \in {"check", "stage"} => exporting[d] = "check")
      BY <2>1, <2>2 DEF Export, Check, Stage, Write, FileSync, Look, Link, Confirm, CleanUp,
                   DirectorySync, Kill, Go, Raise, Ended, Exporting
    <3> QED
      BY <1>2, <2>1, <3>1
  <2>3. UNCHANGED exporting \/ \E d \in Exporter : Export(d)
    BY DEF Next, Retain, List, Stat, Read, StartRanking, Rank, EndPass, Recheck, Remove, Report,
           Replay, ReadArchive, Run, OtherProgram, Replace, Delete, Rewrite, vars, export
  <2> QED
    BY <1>2, <2>2, <2>3
<1> QED
  BY <1>1, <1>2 DEF Fresh

\* An unlink, wherever it happens.
LEMMA Unlinking ==
  ASSUME TypeOK, NEW n \in Name, Unlink(n)
  PROVE  /\ \A f \in Inode : ctime[f] <= ctime'[f]
         /\ \A m \in Name : directory'[m] \in {directory[m], Absent}
<1>1. ctime \in [Inode -> Nat] /\ directory \in [Name -> Inode \cup {Absent}]
  BY DEF TypeOK
<1> QED
  BY <1>1 DEF Unlink, Touched

LEMMA Aging ==
  ASSUME TypeOK, Listed, NamesAreMade, [Next]_vars
  PROVE  Ages /\ NamesAreMade'
<1>0. /\ directory \in [Name -> Inode \cup {Absent}] /\ content \in [Inode -> Content]
      /\ ctime \in [Inode -> Nat]
  BY DEF TypeOK
<1>1. \A f : ~Fresh(f) => ~Fresh(f)'
  BY OnceMade
<1>2. ~Fresh(Absent)
  BY DEF Fresh, Absent, Staged, Other
<1>3. ASSUME /\ \A f \in Inode : ~Fresh(f) => content'[f] = content[f] /\ ctime[f] <= ctime'[f]
             /\ \A n \in Name : directory'[n] \in {directory[n], Absent}
      PROVE  Ages /\ NamesAreMade'
  <2>1. Ages
    BY <1>1, <1>3, Inodes DEF Ages
  <2>2. ASSUME NEW n \in Name, NEW f, f = directory'[n] PROVE ~Fresh(f)'
    BY <1>1, <1>2, <1>3, <2>2 DEF NamesAreMade
  <2>3. NamesAreMade'
    BY <2>2 DEF NamesAreMade, Fresh
  <2> QED
    BY <2>1, <2>3
<1>4. CASE UNCHANGED files
  BY <1>0, <1>3, <1>4 DEF files
<1>5. ASSUME NEW n \in Name, Unlink(n), UNCHANGED content PROVE Ages /\ NamesAreMade'
  BY <1>0, <1>3, <1>5, Unlinking
<1>6. CASE Remove
  <2>1. removal_candidates \in Seq(Items) /\ removal_candidates # <<>>
    BY <1>6 DEF TypeOK, Listed, Remove
  <2>2. Candidate.name \in Name
    <3>1. Candidate \in Items
      BY <2>1, Taking DEF Candidate
    <3> QED
      BY <3>1 DEF Items
  <2>3. CASE Exists(Candidate.name)
    BY <1>5, <1>6, <2>2, <2>3 DEF Remove
  <2>4. CASE ~Exists(Candidate.name)
    BY <1>0, <1>3, <1>6, <2>4 DEF Remove
  <2> QED
    BY <2>3, <2>4
<1>7. ASSUME NEW f \in Inode, Fresh(f), NEW n \in Name,
             \A g \in Inode \ {f} : content'[g] = content[g] /\ ctime[g] <= ctime'[g],
             \A m \in Name \ {n} : directory'[m] = directory[m],
             directory'[n] = f, ~Fresh(f)'
      PROVE  Ages /\ NamesAreMade'
  <2>1. Ages
    <3> SUFFICES ASSUME NEW g \in Inode, ~Fresh(g)
                 PROVE  /\ ~Fresh(g)' /\ ctime[g] <= ctime'[g] /\ content'[g] = content[g]
                        /\ \A m \in Name : directory'[m] = g => directory[m] = g
      BY DEF Ages
    <3>1. g # f
      BY <1>7
    <3> QED
      BY <1>1, <1>7, <3>1
  <2>2. ASSUME NEW m \in Name, NEW g, g = directory'[m] PROVE ~Fresh(g)'
    BY <1>1, <1>7, <2>2 DEF NamesAreMade
  <2>3. NamesAreMade'
    BY <2>2 DEF NamesAreMade, Fresh
  <2> QED
    BY <2>1, <2>3
<1>8. ASSUME NEW n \in Name, NEW c \in Foreign, Replace(n, c) PROVE Ages /\ NamesAreMade'
  <2>1. meddling' = meddling + 1 /\ meddling' \in 1..MaxMeddling /\ meddling \in Nat
    BY <1>8, ContentAssumption, Parts DEF Replace, Meddle, MeddlingTyped
  <2> PICK k \in 1..MaxMeddling : k = meddling'
    BY <2>1
  <2>2. Other(k) \in Inode /\ Fresh(Other(k))
    BY <2>1, Inodes DEF Fresh
  <2>3. ~Fresh(Other(k))'
    BY <2>1 DEF Fresh, Other, Staged
  <2>4. /\ directory' = [directory EXCEPT ![n] = Other(k)]
        /\ content' = [content EXCEPT ![Other(k)] = c]
        /\ ctime' = Touched({directory[n]})
    BY <1>8 DEF Replace
  <2>5. \A g \in Inode \ {Other(k)} : content'[g] = content[g] /\ ctime[g] <= ctime'[g]
    BY <1>0, <2>4 DEF Touched
  <2>6. directory'[n] = Other(k) /\ \A m \in Name \ {n} : directory'[m] = directory[m]
    BY <1>0, <2>4
  <2> QED
    BY <1>7, <2>2, <2>3, <2>5, <2>6
<1>9. ASSUME NEW n \in Name, NEW c \in Foreign, Rewrite(n, c) PROVE Ages /\ NamesAreMade'
  <2>1. ASSUME NEW f \in Inode
        PROVE  ctime[f] <= ctime'[f] /\ (ctime'[f] = ctime[f] => content'[f] = content[f])
    BY <1>0, <1>9 DEF Rewrite, Touched
  <2>2. UNCHANGED directory
    BY <1>9 DEF Rewrite
  <2>3. Ages
    BY <1>1, <2>1, <2>2 DEF Ages
  <2>4. ASSUME NEW m \in Name, NEW g, g = directory[m] PROVE ~Fresh(g)'
    BY <1>1, <2>4 DEF NamesAreMade
  <2>5. NamesAreMade'
    BY <2>2, <2>4 DEF NamesAreMade, Fresh
  <2> QED
    BY <2>3, <2>5
<1>10. ASSUME NEW e \in Exporter, Stage(e) PROVE Ages /\ NamesAreMade'
  <2>1. exporting \in [Exporter -> {"check", "stage", "write", "fsync", "look", "link", "confirm",
                                    "clean up", "dir_fsync", "over", "killed"}]
    BY DEF TypeOK
  <2>2. /\ exporting[e] = "stage" /\ exporting' = [exporting EXCEPT ![e] = "write"]
        /\ directory' = [directory EXCEPT ![e] = Staged(e)] /\ UNCHANGED <<content, ctime>>
    BY <1>10 DEF Stage, Exporting, Go
  <2>3. Staged(e) \in Inode /\ Fresh(Staged(e)) /\ e \in Name
    BY <2>2, Inodes DEF Fresh, Name
  <2>4. ~Fresh(Staged(e))'
    BY <2>1, <2>2 DEF Fresh, Staged, Other
  <2>5. \A g \in Inode \ {Staged(e)} : content'[g] = content[g] /\ ctime[g] <= ctime'[g]
    BY <1>0, <2>2
  <2> QED
    BY <1>0, <1>7, <2>2, <2>3, <2>4, <2>5
<1>11. ASSUME NEW e \in Exporter, Write(e) PROVE Ages /\ NamesAreMade'
  <2>1. /\ content' \in {content, [content EXCEPT ![Staged(e)] = Bundle[e]]}
        /\ ctime' = Touched({Staged(e)}) /\ UNCHANGED directory
    BY <1>11 DEF Write
  <2>2. ASSUME NEW f \in Inode
        PROVE  ctime[f] <= ctime'[f] /\ (ctime'[f] = ctime[f] => content'[f] = content[f])
    BY <1>0, <2>1 DEF Touched
  <2>3. Ages
    BY <1>1, <2>1, <2>2 DEF Ages
  <2>4. ASSUME NEW m \in Name, NEW g, g = directory[m] PROVE ~Fresh(g)'
    BY <1>1, <2>4 DEF NamesAreMade
  <2>5. NamesAreMade'
    BY <2>1, <2>4 DEF NamesAreMade, Fresh
  <2> QED
    BY <2>3, <2>5
<1>12. ASSUME NEW e \in Exporter, Link(e) PROVE Ages /\ NamesAreMade'
  <2>1. CASE CanLink(e)
    <3> DEFINE f == directory[e]
    <3>1. /\ directory' = [directory EXCEPT ![Target[e]] = f] /\ ctime' = Touched({f})
          /\ UNCHANGED content
      BY <1>12, <2>1 DEF Link
    <3>2. f \in Inode /\ ~Fresh(f)
      BY <1>0, <2>1 DEF CanLink, Exists, NamesAreMade, Name
    <3>3. f = directory[e]
      OBVIOUS
    <3> HIDE DEF f
    <3>4. ASSUME NEW g \in Inode
          PROVE  /\ ctime[g] <= ctime'[g]
                 /\ ctime'[g] = ctime[g] => \A n \in Name : directory'[n] = g => directory[n] = g
      BY <1>0, <3>1 DEF Touched
    <3>5. Ages
      BY <1>1, <3>1, <3>4 DEF Ages
    <3>6. ASSUME NEW m \in Name, NEW g, g = directory'[m] PROVE ~Fresh(g)'
      BY <1>0, <1>1, <3>1, <3>2, <3>6 DEF NamesAreMade
    <3>7. NamesAreMade'
      BY <3>6 DEF NamesAreMade, Fresh
    <3> QED
      BY <3>5, <3>7
  <2>2. CASE ~CanLink(e)
    BY <1>0, <1>3, <1>12, <2>2 DEF Link
  <2> QED
    BY <2>1, <2>2
<1>13. ASSUME NEW e \in Exporter, CleanUp(e) PROVE Ages /\ NamesAreMade'
  <2>1. e \in Name
    BY DEF Name
  <2>2. CASE Exists(e)
    BY <1>5, <1>13, <2>1, <2>2 DEF CleanUp
  <2>3. CASE ~Exists(e)
    <3>1. UNCHANGED <<directory, content, ctime>>
      BY <1>13, <2>3 DEF CleanUp
    <3> QED
      BY <1>0, <1>3, <3>1
  <2> QED
    BY <2>2, <2>3
<1>14. CASE Retain
  BY <1>4, <1>6, <1>14
  DEF Retain, List, StartRanking, Stat, Read, Rank, EndPass, Recheck, Report
<1>15. CASE Replay
  BY <1>4, <1>15 DEF Replay, ReadArchive, Run
<1>16. CASE OtherProgram
  BY <1>5, <1>8, <1>9, <1>16 DEF OtherProgram, Delete, Name
<1>17. ASSUME NEW e \in Exporter, Export(e) PROVE Ages /\ NamesAreMade'
  BY <1>4, <1>10, <1>11, <1>12, <1>13, <1>17
  DEF Export, Check, FileSync, Look, Confirm, DirectorySync, Kill
<1> QED
  BY <1>4, <1>14, <1>15, <1>16, <1>17 DEF Next, vars

LEMMA SeenStays ==
  ASSUME TypeOK, TypeOK', Ages, NEW identity \in Identities, Seen(identity)
  PROVE  Seen(identity)' /\ (ctime'[identity[1]] = identity[2] => ctime[identity[1]] = identity[2])
<1> DEFINE f == identity[1]
           t == identity[2]
<1>1. t \in Nat /\ f \in Inode /\ ~Fresh(f) /\ t <= ctime[f]
  BY DEF Identities, Seen
<1>2. ctime[f] \in Nat /\ ctime'[f] \in Nat
  BY <1>1 DEF TypeOK
<1> HIDE DEF f, t
<1>3. ~Fresh(f)' /\ ctime[f] <= ctime'[f]
  BY <1>1 DEF Ages
<1>4. t <= ctime'[f] /\ (ctime'[f] = t => ctime[f] = t)
  BY <1>1, <1>2, <1>3
<1> QED
  BY <1>1, <1>3, <1>4 DEF Seen, f, t

LEMMA VouchedStays ==
  ASSUME TypeOK, TypeOK', Ages, NEW x \in Items, Vouched(x)
  PROVE  Vouched(x)'
<1> DEFINE f == x.identity[1]
           t == x.identity[2]
<1>1. x.name \in Name /\ x.identity \in Identities /\ Seen(x.identity)
  BY DEF Items, Vouched
<1>2. Seen(x.identity)' /\ (ctime'[f] = t => ctime[f] = t)
  BY <1>1, SeenStays
<1>3. f \in Inode /\ ~Fresh(f)
  BY <1>1 DEF Seen
<1>4. directory[x.name] = f /\ ctime[f] = t => content[f] = x.archive
  BY DEF Vouched, StillThere
<1> HIDE DEF f, t
<1>5. ctime'[f] = ctime[f] =>
        content'[f] = content[f] /\ \A n \in Name : directory'[n] = f => directory[n] = f
  BY <1>3 DEF Ages
<1>6. directory'[x.name] = f /\ ctime'[f] = t => content'[f] = x.archive
  BY <1>1, <1>2, <1>4, <1>5
<1> QED
  BY <1>2, <1>6 DEF Vouched, StillThere, f, t

\* Where the items of a pass come from: from each other, or from the read of one name.
LEMMA ItemsAreRead ==
  ASSUME TypeOK, Listed, [Next]_vars, NEW x \in Items_read'
  PROVE  \/ x \in Items_read
         \/ \E n \in todo : /\ Read(n)
                            /\ x = [name |-> n, mtime |-> seen.mtime, archive |-> ContentAt(n),
                                    identity |-> seen.identity]
<1>1. removal_candidates \in Seq(Items)
  BY DEF TypeOK
<1>2. removal_candidates # <<>> /\ removal_candidates' = Tail(removal_candidates) =>
        Dropped' \subseteq Dropped
  BY <1>1, Taking DEF Dropped
<1>3. UNCHANGED pass => x \in Items_read
  BY DEF pass, Items_read, Dropped
<1>4. UNCHANGED removal_candidates => Dropped' = Dropped
  BY DEF Dropped
<1>5. CASE Retain
  <2>1. CASE List \/ StartRanking \/ EndPass \/ Report \/ \E n \in todo : Stat(n)
    BY <1>4, <2>1 DEF List, StartRanking, EndPass, Report, Stat, Items_read
  <2>2. ASSUME NEW n \in todo, Read(n)
        PROVE  \/ x \in Items_read
               \/ x = [name |-> n, mtime |-> seen.mtime, archive |-> ContentAt(n),
                       identity |-> seen.identity]
    BY <1>4, <2>2 DEF Read, Items_read
  <2>3. ASSUME NEW y \in eligible, Rank(y) PROVE x \in Items_read
    <3>1. Dropped' \subseteq Dropped \cup {y}
      <4>1. y \in Items
        BY DEF TypeOK
      <4>2. removal_candidates' \in {removal_candidates, Append(removal_candidates, y)}
        BY <2>3 DEF Rank
      <4> QED
        BY <1>1, <4>1, <4>2, Appending DEF Dropped
    <3>2. /\ duplicates' \subseteq duplicates \cup {y} /\ kept' \subseteq kept \cup {y}
          /\ eligible' \subseteq eligible
      BY <2>3 DEF Rank
    <3> QED
      BY <3>1, <3>2 DEF Items_read
  <2>4. CASE Recheck \/ Remove
    BY <1>2, <1>4, <2>4 DEF Recheck, Remove, Items_read, Listed
  <2> QED
    BY <1>5, <2>1, <2>2, <2>3, <2>4 DEF Retain
<1>6. CASE Replay \/ OtherProgram \/ UNCHANGED vars
  BY <1>3, <1>6 DEF Replay, ReadArchive, Run, OtherProgram, Delete, Replace, Rewrite, vars
<1>7. ASSUME NEW e \in Exporter, Export(e) PROVE x \in Items_read
  BY <1>3, <1>7 DEF Export, Check, Stage, Write, FileSync, Look, Link, Confirm, CleanUp,
     DirectorySync, Kill
<1> QED
  BY <1>5, <1>6, <1>7 DEF Next

LEMMA IdentitiesAreTrusted == Spec => []Trusted
<1>1. Init => Trusted
  <2> SUFFICES ASSUME Init PROVE Trusted
    OBVIOUS
  <2>1. Items_read = {} /\ retention = "list"
    BY DEF Init, Items_read, Dropped
  <2>2. \A n \in Name : directory[n] = Absent \/ \E m \in Final : directory[n] = First(m)
    BY DEF Init
  <2>3. NamesAreMade
    BY <2>2 DEF NamesAreMade, Fresh, Absent, First, Staged, Other
  <2> QED
    BY <2>1, <2>3 DEF Trusted, Retention
<1>2. TypeOK /\ TypeOK' /\ Listed /\ Trusted /\ [Next]_vars => Trusted'
  <2> SUFFICES ASSUME TypeOK, TypeOK', Listed, Trusted, [Next]_vars PROVE Trusted'
    OBVIOUS
  <2>0. NamesAreMade
    BY DEF Trusted
  <2>1. Ages /\ NamesAreMade'
    BY <2>0, Aging
  <2>2. ASSUME NEW identity, identity = seen.identity', retention' = "read"
        PROVE  Seen(identity)'
    <3>1. CASE \E n \in todo : Stat(n)
      <4> PICK n \in todo : Stat(n)
        BY <3>1
      <4>1. n \in Name /\ directory \in [Name -> Inode \cup {Absent}] /\ ctime \in [Inode -> Nat]
        BY DEF TypeOK
      <4> DEFINE f == directory[n]
      <4>2. f # Absent /\ seen' = [mtime |-> mtime[f], identity |-> Identity(f)]
        BY <2>2 DEF Stat, Retention
      <4>3. f \in Inode /\ ~Fresh(f)
        BY <4>1, <4>2, <2>0 DEF NamesAreMade
      <4> HIDE DEF f
      <4>4. identity = <<f, ctime[f]>>
        BY <2>2, <4>2 DEF Identity
      <4>5. Seen(identity) /\ identity \in Identities
        BY <4>1, <4>3, <4>4 DEF Seen, Identities
      <4> QED
        BY <2>1, <4>5, SeenStays
    <3>2. CASE UNCHANGED <<retention, seen>>
      <4>1. Seen(identity) /\ identity \in Identities
        BY <2>2, <3>2 DEF Trusted, Retention, Listed
      <4> QED
        BY <2>1, <4>1, SeenStays
    <3>3. retention' = "read" => (\E n \in todo : Stat(n)) \/ UNCHANGED <<retention, seen>>
      BY DEF Next, Retain, List, Read, StartRanking, Rank, EndPass, Recheck, Remove, Report,
             Replay, ReadArchive, Run, OtherProgram, Replace, Delete, Rewrite, Export, Check,
             Stage, Write, FileSync, Look, Link, Confirm, CleanUp, DirectorySync, Kill, vars,
             pass, Then, Retention
    <3> QED
      BY <2>2, <3>1, <3>2, <3>3
  <2>3. (Retention("read") => Seen(seen.identity))'
    BY <2>2 DEF Retention, Seen, Fresh
  <2>4. ASSUME NEW x \in Items_read' PROVE Vouched(x)'
    <3>1. CASE x \in Items_read
      <4>1. x \in Items
        <5>1. /\ eligible \subseteq Items /\ duplicates \subseteq Items /\ kept \subseteq Items
              /\ removal_candidates \in Seq(Items)
          BY DEF TypeOK
        <5>2. Dropped \subseteq Items
          BY <5>1, ElementOfSeq DEF Dropped
        <5> QED
          BY <3>1, <5>1, <5>2 DEF Items_read
      <4> QED
        BY <2>1, <3>1, <4>1, VouchedStays DEF Trusted
    <3>2. ASSUME NEW n \in todo, Read(n),
                 x = [name |-> n, mtime |-> seen.mtime, archive |-> ContentAt(n),
                      identity |-> seen.identity]
          PROVE  Vouched(x)'
      <4>1. /\ seen.identity \in Identities /\ Seen(seen.identity) /\ n \in Name
            /\ UNCHANGED files
        BY <3>2 DEF Read, Listed, Trusted, TypeOK
      <4>2. x.identity = seen.identity /\ x.name = n /\ x.archive = ContentAt(n)
        BY <3>2
      <4>3. Seen(x.identity)'
        BY <2>1, <4>1, <4>2, SeenStays
      <4>4. x.identity[1] \in Inode
        BY <4>1, <4>2 DEF Seen
      <4>5. directory[n] = x.identity[1] => content[x.identity[1]] = x.archive
        BY <4>2, <4>4, Inodes DEF ContentAt, Exists
      <4> QED
        BY <4>1, <4>2, <4>3, <4>5 DEF Vouched, StillThere, files
    <3> QED
      BY <3>1, <3>2, ItemsAreRead
  <2> QED
    BY <2>1, <2>3, <2>4 DEF Trusted, Vouched
<1> QED
  BY <1>1, <1>2, WellTyped, PTL DEF Spec, Typed

\* When the last look of a pass lets an unlink follow, the path holds the very bytes that
\* were validated and ranked, whoever wrote, linked or unlinked since.
THEOREM RemovalsAreOfWhatWasRead == Spec => RemovesOnlyWhatItRead
<1>1. TypeOK /\ Trusted /\ [Next]_vars =>
        [Retention("recheck") /\ retention' = "unlink" =>
           ContentAt(Candidate.name) = Candidate.archive]_vars
  <2> SUFFICES ASSUME TypeOK, Trusted, [Next]_vars, retention = "recheck", retention' = "unlink"
               PROVE  ContentAt(Candidate.name) = Candidate.archive
    BY DEF Retention
  <2>1. Recheck
    BY DEF Next, Retain, List, Stat, Read, StartRanking, Rank, EndPass, Remove, Report, Replay,
           ReadArchive, Run, OtherProgram, Replace, Delete, Rewrite, Export, Check, Stage, Write,
           FileSync, Look, Link, Confirm, CleanUp, DirectorySync, Kill, vars, pass, Then, Retention
  <2> DEFINE f == directory[Candidate.name]
  <2>2. removal_candidates \in Seq(Items) /\ removal_candidates # <<>>
    BY <2>1 DEF TypeOK, Recheck
  <2>3. Candidate \in Dropped /\ Candidate \in Items
    <3>1. Candidate = removal_candidates[1] /\ 1 \in DOMAIN removal_candidates
      BY <2>2, EmptySeq DEF Candidate
    <3> QED
      BY <2>2, <3>1, ElementOfSeq DEF Dropped
  <2>4. f # Absent /\ Identity(f) = Candidate.identity
    BY <2>1 DEF Recheck, Retention, Then
  <2>5. Vouched(Candidate)
    BY <2>3 DEF Trusted, Items_read
  <2>6. Candidate.identity = <<f, ctime[f]>>
    BY <2>4 DEF Identity
  <2>7. content[f] = Candidate.archive
    BY <2>5, <2>6 DEF Vouched, StillThere
  <2> QED
    BY <2>4, <2>7 DEF ContentAt, Exists
<1> QED
  BY <1>1, IdentitiesAreTrusted, TypeCorrect, PTL DEF Spec, RemovesOnlyWhatItRead

----------------------------------------------------------------------------
(* Replaying.                                                              *)

\* The bytes a replay runs are those it compared, which a given digest makes the kept ones.
PinnedIsKept == replaying \in {"run", "ran"} /\ pinned => snapshot = witness.archive

\* A replay given the digest of kept evidence runs the bytes retention validated or none,
\* however the path changed in between.
THEOREM ReplaysRunWhatWasKept == Spec => []ReplayRunsWhatWasKept
<1>1. Init => PinnedIsKept
  BY DEF Init, PinnedIsKept
<1>2. PinnedIsKept /\ [Next]_vars => PinnedIsKept'
  <2> SUFFICES ASSUME PinnedIsKept, [Next]_vars PROVE PinnedIsKept'
    OBVIOUS
  <2>1. ASSUME NEW x \in kept, ReadArchive(x) PROVE PinnedIsKept'
    BY <2>1 DEF ReadArchive, Accepted, PinnedIsKept
  <2>2. CASE Run
    BY <2>2 DEF Run, PinnedIsKept
  <2>3. CASE UNCHANGED replay
    BY <2>3 DEF replay, PinnedIsKept
  <2>4. Replay \/ UNCHANGED replay
    BY DEF Next, Retain, List, Stat, Read, StartRanking, Rank, EndPass, Recheck, Remove, Report,
           OtherProgram, Replace, Delete, Rewrite, Export, Check, Stage, Write, FileSync, Look,
           Link, Confirm, CleanUp, DirectorySync, Kill, vars
  <2> QED
    BY <2>1, <2>2, <2>3, <2>4 DEF Replay
<1>3. PinnedIsKept => ReplayRunsWhatWasKept
  BY DEF PinnedIsKept, ReplayRunsWhatWasKept
<1> QED
  BY <1>1, <1>2, <1>3, PTL DEF Spec

----------------------------------------------------------------------------
(* Exporting.                                                              *)

(***************************************************************************)
(* What an export has made when it gets to a position.  Until it links its *)
(* staging file nobody but its own staging path names it, so the bytes it  *)
(* wrote are in it; a name elsewhere that names it was given by that link. *)
(***************************************************************************)
Finished(e) == [file |-> Staged(e), archive |-> Bundle[e]]
Unlinked == {"check", "stage", "write", "fsync", "look", "link"}
Truthful(e) ==
  /\ exporting[e] \in {"fsync", "look", "link"} => content[Staged(e)] = Bundle[e]
  /\ exporting[e] \in Unlinked => published[e] = Unpublished
  /\ \A n \in Name \ {e} : directory[n] = Staged(e) => published[e] = Finished(e)
  /\ exporting[e] \notin {"clean up", "over", "killed"} => outcome[e] = "none"
  /\ exporting[e] = "clean up" => outcome[e] \notin {"returned", "dir_fsync"}
  /\ exporting[e] = "clean up" /\ outcome[e] = "none" => published[e] = Finished(e)
  /\ exporting[e] = "dir_fsync" => published[e] = Finished(e)
  /\ outcome[e] \in {"returned", "dir_fsync"} => published[e] = Finished(e)
  /\ outcome[e] = "fsync" => published[e] = Unpublished
AllTruthful == \A e \in Exporter : Truthful(e)

LEMMA NotFinished == \A e \in Exporter : Unpublished # Finished(e)
BY DEF Unpublished, Finished, Absent, Staged

\* Steps that leave an export alone and give its staging file no name.
LEMMA LeavesTruthful ==
  ASSUME NEW e \in Exporter, Truthful(e),
         exporting'[e] = exporting[e], published'[e] = published[e], outcome'[e] = outcome[e],
         content'[Staged(e)] = content[Staged(e)] \/ exporting[e] \notin {"fsync", "look", "link"},
         \A n \in Name \ {e} : directory'[n] = Staged(e) =>
           \E m \in Name \ {e} : directory[m] = Staged(e)
  PROVE  Truthful(e)'
<1>1. \A n \in Name \ {e} : directory'[n] = Staged(e) => published[e] = Finished(e)
  BY DEF Truthful
<1>2. Finished(e)' = Finished(e) /\ Staged(e)' = Staged(e)
  BY DEF Finished, Staged
<1> QED
  BY <1>1, <1>2 DEF Truthful, Unlinked

LEMMA ExportsAreTruthful == Spec => []AllTruthful
<1>1. Init => AllTruthful
  <2> SUFFICES ASSUME Init, NEW e \in Exporter PROVE Truthful(e)
    BY DEF AllTruthful
  <2>1. \A n \in Name : directory[n] = Absent \/ \E m \in Final : directory[n] = First(m)
    BY DEF Init
  <2>2. \A n \in Name : directory[n] # Staged(e)
    BY <2>1 DEF Absent, First, Staged
  <2> QED
    BY <2>2 DEF Init, Truthful, Unlinked
<1>2. TypeOK /\ AllTruthful /\ [Next]_vars => AllTruthful'
  <2> SUFFICES ASSUME TypeOK, AllTruthful, [Next]_vars, NEW e \in Exporter PROVE Truthful(e)'
    BY DEF AllTruthful
  <2>0. /\ directory \in [Name -> Inode \cup {Absent}] /\ content \in [Inode -> Content]
        /\ exporting \in [Exporter -> {"check", "stage", "write", "fsync", "look", "link",
                                       "confirm", "clean up", "dir_fsync", "over", "killed"}]
        /\ outcome \in [Exporter -> {"none", "returned", "raised", "fsync", "dir_fsync"}]
        /\ published \in [Exporter -> [file : Inode, archive : Content] \cup {Unpublished}]
        /\ durable \in [Exporter -> BOOLEAN]
    BY DEF TypeOK
  <2>1. Truthful(e) /\ Staged(e) \in Inode /\ e \in Name
    BY Inodes DEF AllTruthful, Name
  <2>2. ASSUME UNCHANGED <<content, exporting, published, outcome>>,
               \A n \in Name : directory'[n] \in {directory[n], Absent}
        PROVE  Truthful(e)'
    BY <2>1, <2>2, LeavesTruthful, Inodes
  <2>3. ASSUME NEW n \in Name, Unlink(n), UNCHANGED <<content, exporting, published, outcome>>
        PROVE  Truthful(e)'
    BY <2>0, <2>2, <2>3 DEF Unlink
  <2>4. CASE Retain
    <3>1. UNCHANGED <<content, exporting, published, outcome>>
      BY <2>4 DEF Retain, List, Stat, Read, StartRanking, Rank, EndPass, Recheck, Remove, Report,
                  files, export
    <3>2. CASE Remove
      BY <2>0, <2>2, <3>1, <3>2 DEF Remove, Unlink
    <3>3. Remove \/ UNCHANGED directory
      BY <2>4 DEF Retain, List, Stat, Read, StartRanking, Rank, EndPass, Recheck, Report, files
    <3> QED
      BY <2>2, <3>1, <3>2, <3>3
  <2>5. CASE Replay \/ UNCHANGED vars
    BY <2>2, <2>5 DEF Replay, ReadArchive, Run, vars, files, export
  <2>6. CASE OtherProgram
    <3>1. ASSUME NEW n \in Name, Delete(n) PROVE Truthful(e)'
      BY <2>3, <3>1 DEF Delete, export
    <3>2. ASSUME NEW n \in Name, NEW c \in Foreign, Replace(n, c) PROVE Truthful(e)'
      <4> PICK f : f = Other(meddling')
        OBVIOUS
      <4>1. f # Staged(e)
        BY DEF Other, Staged
      <4>2. /\ directory' = [directory EXCEPT ![n] = f] /\ content' = [content EXCEPT ![f] = c]
            /\ UNCHANGED <<exporting, published, outcome>>
        BY <3>2 DEF Replace, export
      <4>3. content'[Staged(e)] = content[Staged(e)]
        BY <2>0, <2>1, <4>1, <4>2
      <4>4. \A m \in Name : directory'[m] = Staged(e) => directory[m] = Staged(e)
        BY <2>0, <4>1, <4>2
      <4> QED
        BY <2>1, <4>2, <4>3, <4>4, LeavesTruthful
    <3>3. ASSUME NEW n \in Final, NEW c \in Foreign, Rewrite(n, c) PROVE Truthful(e)'
      <4>1. /\ UNCHANGED <<directory, exporting, published, outcome>>
            /\ content' = [content EXCEPT ![directory[n]] = c]
        BY <3>3 DEF Rewrite, export
      <4>2. content'[Staged(e)] = content[Staged(e)] \/ directory[n] = Staged(e)
        BY <2>0, <2>1, <4>1
      <4>3. n \in Name \ {e}
        BY NamesAssumption DEF Name
      <4>4. directory[n] = Staged(e) => exporting[e] \notin {"fsync", "look", "link"}
        BY <2>1, <4>3, NotFinished DEF Truthful, Unlinked
      <4> QED
        BY <2>1, <4>1, <4>2, <4>4, LeavesTruthful
    <3> QED
      BY <2>6, <3>1, <3>2, <3>3 DEF OtherProgram
  <2>7. ASSUME NEW d \in Exporter, d # e, Export(d) PROVE Truthful(e)'
    <3>1. Staged(d) # Staged(e) /\ Staged(d) \in Inode /\ d \in Name
      BY <2>7, Inodes DEF Staged, Name
    <3>2. exporting'[e] = exporting[e] /\ published'[e] = published[e] /\ outcome'[e] = outcome[e]
      BY <2>0, <2>7 DEF Export, Check, Stage, Write, FileSync, Look, Link, Confirm, CleanUp,
                        DirectorySync, Kill, Go, Raise, Ended
    <3>3. content'[Staged(e)] = content[Staged(e)]
      BY <2>0, <2>1, <2>7, <3>1
      DEF Export, Check, Stage, Write, FileSync, Look, Link, Confirm, CleanUp, DirectorySync,
          Kill, files
    <3>4. ASSUME NEW n \in Name \ {e}, directory'[n] = Staged(e)
          PROVE  \E m \in Name \ {e} : directory[m] = Staged(e)
      <4>1. CASE Stage(d)
        BY <2>0, <3>1, <3>4, <4>1 DEF Stage
      <4>2. CASE Link(d)
        <5>1. directory' = directory \/ directory' = [directory EXCEPT ![Target[d]] = directory[d]]
          BY <4>2 DEF Link
        <5>2. directory[n] = Staged(e) \/ directory[d] = Staged(e)
          BY <2>0, <3>4, <5>1
        <5> QED
          BY <2>7, <3>1, <5>2
      <4>3. CASE CleanUp(d)
        BY <2>0, <2>1, <3>4, <4>3, Inodes DEF CleanUp, Unlink
      <4>4. CASE UNCHANGED directory
        BY <3>4, <4>4
      <4>5. Stage(d) \/ Link(d) \/ CleanUp(d) \/ UNCHANGED directory
        BY <2>7 DEF Export, Check, Write, FileSync, Look, Confirm, DirectorySync, Kill, files
      <4> QED
        BY <4>1, <4>2, <4>3, <4>4, <4>5
    <3> QED
      BY <2>1, <3>2, <3>3, <3>4, LeavesTruthful
  <2>8. ASSUME Export(e) PROVE Truthful(e)'
    <3>0. Finished(e)' = Finished(e) /\ Staged(e)' = Staged(e) /\ Unpublished # Finished(e)
      BY NotFinished DEF Finished, Staged
    <3>1. CASE Check(e)
      BY <2>0, <2>1, <3>0, <3>1 DEF Check, Exporting, Go, Ended, Truthful, Unlinked, files
    <3>2. CASE Stage(e)
      BY <2>0, <2>1, <3>0, <3>2 DEF Stage, Exporting, Go, Truthful, Unlinked
    <3>3. CASE Write(e)
      BY <2>0, <2>1, <3>0, <3>3 DEF Write, Exporting, Go, Raise, Ended, Truthful, Unlinked
    <3>4. CASE FileSync(e)
      BY <2>0, <2>1, <3>0, <3>4 DEF FileSync, Exporting, Go, Raise, Ended, Truthful, Unlinked, files
    <3>5. CASE Look(e)
      BY <2>0, <2>1, <3>0, <3>5 DEF Look, Exporting, Go, Raise, Ended, Truthful, Unlinked, files
    <3>6. CASE Link(e)
      <4>1. exporting[e] = "link" /\ content[Staged(e)] = Bundle[e] /\ UNCHANGED content
            /\ published[e] = Unpublished /\ outcome[e] = "none"
            /\ \A n \in Name \ {e} : directory[n] # Staged(e)
        BY <2>1, <3>0, <3>6 DEF Link, Exporting, Truthful, Unlinked
      <4>2. CASE CanLink(e)
        <5> DEFINE f == directory[e]
        <5>1. /\ directory' = [directory EXCEPT ![Target[e]] = f]
              /\ published' = [published EXCEPT ![e] = [file |-> f, archive |-> content[f]]]
              /\ exporting' = [exporting EXCEPT ![e] = "confirm"] /\ UNCHANGED outcome
          BY <3>6, <4>2 DEF Link, Go
        <5>2. \A n \in Name \ {e} : directory'[n] = Staged(e) => f = Staged(e)
          BY <2>0, <4>1, <5>1
        <5>3. published'[e] = [file |-> f, archive |-> content[f]]
          BY <2>0, <5>1
        <5>4. f = Staged(e) => published'[e] = Finished(e)
          BY <4>1, <5>3 DEF Finished
        <5>5. exporting'[e] = "confirm" /\ outcome'[e] = "none"
          BY <2>0, <4>1, <5>1
        <5> HIDE DEF f
        <5> QED
          BY <3>0, <5>2, <5>4, <5>5 DEF Truthful, Unlinked
      <4>3. CASE ~CanLink(e)
        BY <2>0, <2>1, <3>0, <3>6, <4>1, <4>3 DEF Link, Go, Raise, Ended, Truthful, Unlinked
      <4> QED
        BY <4>2, <4>3
    <3>7. CASE Confirm(e)
      <4>1. Target[e] \in Name \ {e}
        BY NamesAssumption DEF Name
      <4> QED
        BY <2>0, <2>1, <3>0, <3>7, <4>1
        DEF Confirm, Exporting, Go, Raise, Ended, Truthful, Unlinked, files
    <3>8. CASE CleanUp(e)
      <4>1. \A n \in Name : directory'[n] \in {directory[n], Absent}
        BY <2>0, <2>1, <3>8 DEF CleanUp, Unlink
      <4>2. Absent # Staged(e)
        BY DEF Absent, Staged
      <4> QED
        BY <2>0, <2>1, <3>0, <3>8, <4>1, <4>2 DEF CleanUp, Exporting, Go, Ended, Truthful, Unlinked
    <3>9. CASE DirectorySync(e)
      BY <2>0, <2>1, <3>0, <3>9 DEF DirectorySync, Exporting, Go, Ended, Truthful, Unlinked, files
    <3>10. CASE Kill(e)
      BY <2>0, <2>1, <3>0, <3>10 DEF Kill, Go, Truthful, Unlinked, files
    <3> QED
      BY <2>8, <3>1, <3>2, <3>3, <3>4, <3>5, <3>6, <3>7, <3>8, <3>9, <3>10 DEF Export
  <2> QED
    BY <2>4, <2>5, <2>6, <2>7, <2>8 DEF Next
<1> QED
  BY <1>1, <1>2, TypeCorrect, PTL DEF Spec

\* An export that returned, and one whose directory sync failed, made its own complete
\* archive visible; one whose file sync failed made nothing visible.
THEOREM ExportsTellTheTruth == Spec => []ExportIsTruthful
<1>1. AllTruthful => ExportIsTruthful
  BY DEF AllTruthful, Truthful, ExportIsTruthful, Finished
<1> QED
  BY <1>1, ExportsAreTruthful, PTL

----------------------------------------------------------------------------
(***************************************************************************)
(* What a retention pass drops did not fit, for any archives and policy.   *)
(* The pass ranks twice against the same two budgets: once for one archive *)
(* of every failure, once for what that put off.                           *)
(***************************************************************************)

(* Bytes is a sum, defined by recursion over a set; what follows of it is  *)
(* by induction over finite sets.                                          *)

SizeOf(x) == Size[x.archive]
Picked(s) == CHOOSE x \in s : TRUE
IsSum(g, S) ==
  g = [s \in SUBSET S |-> IF s = {} THEN 0 ELSE SizeOf(Picked(s)) + g[s \ {Picked(s)}]]
SumsOver(S) == CHOOSE g : IsSum(g, S)

LEMMA BytesIsASum == ASSUME NEW S PROVE Bytes(S) = SumsOver(S)[S]
BY DEF Bytes, MapThenSumSet, MapThenFoldSet, SumsOver, IsSum, Picked, SizeOf

LEMMA PickedIn == ASSUME NEW s, s # {} PROVE Picked(s) \in s
BY DEF Picked

\* A nonempty set of parts of a finite set has a smallest member: induction over finite
\* sets, in the form of a least counterexample.
LEMMA Smallest ==
  ASSUME NEW S, IsFiniteSet(S), NEW U \in SUBSET (SUBSET S), U # {}
  PROVE  \E s \in U : \A t \in U : t \subseteq s => t = s
<1>1. IsWellFoundedOn(StrictSubsetOrdering(S), SUBSET S)
  BY FS_StrictSubsetOrderingWellFounded, FS_FiniteSubsetsOfFinite
<1>2. \E s \in U : \A t \in U : <<t, s>> \notin StrictSubsetOrdering(S)
  BY <1>1, WFMin
<1> QED
  BY <1>2 DEF StrictSubsetOrdering

LEMMA SumAt ==
  ASSUME NEW S, NEW g, IsSum(g, S), NEW s \in SUBSET S
  PROVE  g[s] = IF s = {} THEN 0 ELSE SizeOf(Picked(s)) + g[s \ {Picked(s)}]
BY DEF IsSum

\* Two such functions agree wherever both are defined.
LEMMA SumsAgree ==
  ASSUME NEW S, NEW T, IsFiniteSet(S), NEW g, NEW h, IsSum(g, S), IsSum(h, T)
  PROVE  \A s \in (SUBSET S) \cap (SUBSET T) : g[s] = h[s]
<1> DEFINE U == {s \in (SUBSET S) \cap (SUBSET T) : g[s] # h[s]}
<1> SUFFICES ASSUME U # {} PROVE FALSE
  OBVIOUS
<1>0. U \in SUBSET (SUBSET S)
  OBVIOUS
<1>1. PICK s \in U : \A t \in U : t \subseteq s => t = s
  <2> HIDE DEF U
  <2> QED
    BY <1>0, Smallest
<1>2. g[s] = IF s = {} THEN 0 ELSE SizeOf(Picked(s)) + g[s \ {Picked(s)}]
  <2>1. s \in SUBSET S
    OBVIOUS
  <2> QED
    BY <2>1, SumAt
<1>3. h[s] = IF s = {} THEN 0 ELSE SizeOf(Picked(s)) + h[s \ {Picked(s)}]
  <2>1. s \in SUBSET T
    OBVIOUS
  <2> QED
    BY <2>1, SumAt
<1>4. s # {}
  BY <1>2, <1>3
<1>5. s \ {Picked(s)} \notin U /\ s \ {Picked(s)} \in (SUBSET S) \cap (SUBSET T)
  BY <1>1, <1>4, PickedIn
<1> QED
  BY <1>2, <1>3, <1>4, <1>5

LEMMA SumsNest ==
  ASSUME NEW S, IsFiniteSet(S), IsSum(SumsOver(S), S),
         NEW r \in SUBSET S, IsSum(SumsOver(r), r)
  PROVE  SumsOver(S)[r] = SumsOver(r)[r]
<1>1. r \in (SUBSET S) \cap (SUBSET r)
  OBVIOUS
<1> QED
  BY <1>1, SumsAgree

\* There is such a function for every finite set.
LEMMA SumsExist ==
  ASSUME NEW S, IsFiniteSet(S)
  PROVE  IsSum(SumsOver(S), S)
<1> DEFINE U == {s \in SUBSET S : ~\E g : IsSum(g, s)}
<1>1. U = {}
  <2> SUFFICES ASSUME U # {} PROVE FALSE
    OBVIOUS
  <2>0. U \in SUBSET (SUBSET S)
    OBVIOUS
  <2>1. PICK m \in U : \A t \in U : t \subseteq m => t = m
    <3> HIDE DEF U
    <3> QED
      BY <2>0, Smallest
  <2>2. \A s \in SUBSET m : IsFiniteSet(s)
    BY FS_Subset
  <2>3. ASSUME NEW s \in SUBSET m, s # m PROVE IsSum(SumsOver(s), s)
    <3>1. \E g : IsSum(g, s)
      BY <2>1, <2>3
    <3> QED
      BY <3>1 DEF SumsOver
  <2> DEFINE rest(s) == s \ {Picked(s)}
             g == [s \in SUBSET m |-> IF s = {} THEN 0
                                      ELSE SizeOf(Picked(s)) + SumsOver(rest(s))[rest(s)]]
  <2>4. ASSUME NEW s \in SUBSET m, s # {}
        PROVE  SumsOver(rest(s))[rest(s)] = g[rest(s)]
    <3>1. rest(s) \in SUBSET m /\ rest(s) # m
      BY <2>4, PickedIn
    <3>2. IsSum(SumsOver(rest(s)), rest(s))
      BY <2>3, <3>1
    <3> DEFINE r == rest(s)
    <3>3. SumsOver(r)[r] = IF r = {} THEN 0 ELSE SizeOf(Picked(r)) + SumsOver(r)[rest(r)]
      BY <3>2 DEF IsSum
    <3>4. CASE r = {}
      BY <3>1, <3>3, <3>4
    <3>5. CASE r # {}
      <4>1. rest(r) \in SUBSET m /\ rest(r) # m /\ rest(r) \in SUBSET r
        BY <3>1, <3>5, PickedIn
      <4>2. IsSum(SumsOver(rest(r)), rest(r))
        BY <2>3, <4>1
      <4>3. SumsOver(r)[rest(r)] = SumsOver(rest(r))[rest(r)]
        <5>1. IsFiniteSet(r)
          BY <2>2, <3>1
        <5>2. IsSum(SumsOver(r), r)
          BY <3>2
        <5> HIDE DEF rest, r
        <5> QED
          BY <4>1, <4>2, <5>1, <5>2, SumsNest
      <4> QED
        BY <3>1, <3>3, <3>5, <4>3
    <3> QED
      BY <3>4, <3>5
  <2>5. IsSum(g, m)
    BY <2>4 DEF IsSum
  <2> QED
    BY <2>5
<1> QED
  BY <1>1 DEF SumsOver

LEMMA BytesByPicking ==
  /\ Bytes({}) = 0
  /\ \A S : IsFiniteSet(S) /\ S # {} => Bytes(S) = SizeOf(Picked(S)) + Bytes(S \ {Picked(S)})
<1>1. ASSUME NEW S, IsFiniteSet(S)
      PROVE  Bytes(S) = IF S = {} THEN 0 ELSE SizeOf(Picked(S)) + Bytes(S \ {Picked(S)})
  <2> DEFINE r == S \ {Picked(S)}
  <2>1. IsFiniteSet(r) /\ r \in SUBSET S
    BY <1>1, FS_Subset
  <2>2. IsSum(SumsOver(S), S) /\ IsSum(SumsOver(r), r)
    BY <1>1, <2>1, SumsExist
  <2>3. SumsOver(S)[r] = SumsOver(r)[r]
    <3> HIDE DEF r
    <3> QED
      BY <1>1, <2>1, <2>2, SumsNest
  <2>4. SumsOver(S)[S] = IF S = {} THEN 0 ELSE SizeOf(Picked(S)) + SumsOver(S)[r]
    BY <2>2, SumAt
  <2> QED
    BY <2>3, <2>4, BytesIsASum
<1> QED
  BY <1>1, FS_EmptySet

LEMMA BytesIsNat ==
  ASSUME NEW S, IsFiniteSet(S), \A x \in S : SizeOf(x) \in Nat
  PROVE  Bytes(S) \in Nat
<1> DEFINE U == {s \in SUBSET S : Bytes(s) \notin Nat}
<1> SUFFICES ASSUME U # {} PROVE FALSE
  OBVIOUS
<1>0. U \in SUBSET (SUBSET S)
  OBVIOUS
<1>1. PICK s \in U : \A t \in U : t \subseteq s => t = s
  <2> HIDE DEF U
  <2> QED
    BY <1>0, Smallest
<1>2. IsFiniteSet(s)
  BY FS_Subset
<1>3. s # {}
  <2>1. Bytes(s) # 0
    OBVIOUS
  <2> QED
    BY <2>1, BytesByPicking
<1>4. Picked(s) \in s /\ Bytes(s \ {Picked(s)}) \in Nat
  BY <1>1, <1>3, PickedIn
<1>5. Bytes(s) = SizeOf(Picked(s)) + Bytes(s \ {Picked(s)})
  BY <1>2, <1>3, BytesByPicking
<1>6. Bytes(s) \notin Nat /\ SizeOf(Picked(s)) \in Nat
  BY <1>4
<1> QED
  BY <1>4, <1>5, <1>6

\* The sum does not depend on the order of picking: any member can be taken out first.
LEMMA BytesByTaking ==
  ASSUME NEW S, IsFiniteSet(S), \A x \in S : SizeOf(x) \in Nat, NEW x \in S
  PROVE  Bytes(S) = SizeOf(x) + Bytes(S \ {x})
<1> DEFINE Taken(s) == \A y \in s : Bytes(s) = SizeOf(y) + Bytes(s \ {y})
           U == {s \in SUBSET S : ~Taken(s)}
<1>1. U = {}
  <2> SUFFICES ASSUME U # {} PROVE FALSE
    OBVIOUS
  <2>0. U \in SUBSET (SUBSET S)
    OBVIOUS
  <2>1. PICK s \in U : \A t \in U : t \subseteq s => t = s
    <3> HIDE DEF U
    <3> QED
      BY <2>0, Smallest
  <2>2. \A t \in SUBSET S : IsFiniteSet(t) /\ Bytes(t) \in Nat
    BY FS_Subset, BytesIsNat
  <2> PICK y \in s : Bytes(s) # SizeOf(y) + Bytes(s \ {y})
    OBVIOUS
  <2> DEFINE p == Picked(s)
  <2>3. p \in s /\ Bytes(s) = SizeOf(p) + Bytes(s \ {p})
    BY <2>2, PickedIn, BytesByPicking
  <2>4. p # y
    BY <2>3
  <2>5. Taken(s \ {p}) /\ Taken(s \ {y})
    <3>1. s \ {p} \notin U /\ s \ {y} \notin U
      BY <2>1, <2>3
    <3> QED
      BY <3>1
  <2>6. /\ Bytes(s \ {p}) = SizeOf(y) + Bytes((s \ {p}) \ {y})
        /\ Bytes(s \ {y}) = SizeOf(p) + Bytes((s \ {y}) \ {p})
    BY <2>3, <2>4, <2>5
  <2>7. (s \ {p}) \ {y} = (s \ {y}) \ {p}
    OBVIOUS
  <2>8. SizeOf(p) \in Nat /\ SizeOf(y) \in Nat /\ Bytes((s \ {y}) \ {p}) \in Nat
    BY <2>2, <2>3
  <2>9. Bytes(s) # SizeOf(y) + Bytes(s \ {y})
    OBVIOUS
  <2>a. /\ Bytes(s) = SizeOf(p) + Bytes(s \ {p})
        /\ Bytes(s \ {p}) = SizeOf(y) + Bytes((s \ {y}) \ {p})
        /\ Bytes(s \ {y}) = SizeOf(p) + Bytes((s \ {y}) \ {p})
    BY <2>3, <2>6, <2>7
  <2> DEFINE sy == SizeOf(y)
             sp == SizeOf(p)
             b == Bytes(s)
             bp == Bytes(s \ {p})
             by == Bytes(s \ {y})
             bpy == Bytes((s \ {y}) \ {p})
  <2>b. /\ sp \in Nat /\ sy \in Nat /\ bpy \in Nat
        /\ b = sp + bp /\ bp = sy + bpy /\ by = sp + bpy
        /\ b # sy + by
    BY <2>8, <2>9, <2>a
  <2> HIDE DEF sy, sp, b, bp, by, bpy
  <2> QED
    BY <2>b
<1> QED
  BY <1>1

LEMMA BytesOfOneMore ==
  ASSUME NEW S, IsFiniteSet(S), \A x \in S : SizeOf(x) \in Nat,
         NEW y, y \notin S, SizeOf(y) \in Nat
  PROVE  Bytes(S \cup {y}) = Bytes(S) + SizeOf(y)
<1>1. IsFiniteSet(S \cup {y})
  BY FS_AddElement
<1>2. (S \cup {y}) \ {y} = S
  OBVIOUS
<1>3. Bytes(S \cup {y}) = SizeOf(y) + Bytes((S \cup {y}) \ {y})
  BY <1>1, BytesByTaking
<1> DEFINE b2 == Bytes(S \cup {y})
           b == Bytes(S)
           t == SizeOf(y)
<1>4. b \in Nat /\ t \in Nat /\ b2 = t + b
  BY <1>2, <1>3, BytesIsNat
<1> HIDE DEF b2, b, t
<1>5. b2 = b + t
  BY <1>4
<1> QED
  BY <1>5 DEF b2, b, t

----------------------------------------------------------------------------
(* The invariant of a pass, as operators of its step p, its lists and what *)
(* it has dropped: E eligible, U duplicates, K kept, D dropped.            *)

SameFailure(x, y) == Signature[y.archive] = Signature[x.archive]
RepresentativesOf(K) == {x \in K : \A y \in K \ {x} : SameFailure(x, y) => Newer(x, y)}
Room(p, x, K) ==
  /\ Cardinality(K) < p.max_archives
  /\ Bytes(K) + Size[x.archive] <= p.max_total_archive_bytes

\* An archive is in one list at a time; only the first ranking pass puts any off.
Listings(step, E, U, K, D) ==
  /\ IsFiniteSet(E) /\ IsFiniteSet(U) /\ IsFiniteSet(K)
  /\ E \cap U = {} /\ E \cap K = {} /\ U \cap K = {}
  /\ step \in {"list", "stat", "read"} => U = {} /\ K = {} /\ D = {}
  /\ step # "rank" => U = {}

\* The archives that are put off: duplicates, until the second pass takes them.
PutOff(step, E, U) == {y \in E \cup U : IF step = "rank" THEN y \in U ELSE step = "fill"}

\* A pass that preserves unique failures first keeps one archive per failure, the newest.
\* Those are the representatives, and they stay ahead of what was put off.
Represented(step, E, U, K) ==
  /\ step = "rank" => /\ \A x, y \in K : SameFailure(x, y) => x = y
                      /\ \A x \in K, y \in E : Newer(x, y)
  /\ \A y \in PutOff(step, E, U) :
       /\ Represents(K, y)
       /\ \A x \in RepresentativesOf(K) : SameFailure(x, y) => Newer(x, y)

Justified(p, K, D) ==
  /\ Cardinality(K) <= p.max_archives /\ Bytes(K) <= p.max_total_archive_bytes
  /\ \A x \in D :
       /\ ~Room(p, x, K)
       /\ p.preserve_unique_failures /\ ~Represents(K, x) => ~Room(p, x, RepresentativesOf(K))

Ranked(step, p, E, U, K, D) ==
  /\ Listings(step, E, U, K, D)
  /\ p.preserve_unique_failures => Represented(step, E, U, K)
  /\ Justified(p, K, D)

RInv == Ranked(retention, policy, eligible, duplicates, kept, Dropped)

LEMMA JustifiedIsTheProperty ==
  OnlyWhatDoesNotFitIsDropped <=> Justified(policy, kept, Dropped)
BY DEF OnlyWhatDoesNotFitIsDropped, Justified, Fits, Room, Representatives, RepresentativesOf,
       SameFailure

----------------------------------------------------------------------------
(* What one more archive changes.                                          *)

LEMMA Sizes ==
  ASSUME NEW K, K \subseteq Items, IsFiniteSet(K)
  PROVE  /\ Cardinality(K) \in Nat /\ Bytes(K) \in Nat
         /\ \A y \in Items \ K : /\ Size[y.archive] \in Nat
                                 /\ Cardinality(K \cup {y}) = Cardinality(K) + 1
                                 /\ Bytes(K \cup {y}) = Bytes(K) + Size[y.archive]
<1>1. \A y \in Items : Size[y.archive] \in Nat
  BY ContentAssumption DEF Items
<1>2. \A y \in K : Size[y.archive] \in Nat
  BY <1>1
<1>3. Cardinality(K) \in Nat /\ Bytes(K) \in Nat
  BY <1>2, FS_CardinalityType, BytesIsNat DEF SizeOf
<1>4. ASSUME NEW y \in Items \ K
      PROVE  /\ Size[y.archive] \in Nat /\ Cardinality(K \cup {y}) = Cardinality(K) + 1
             /\ Bytes(K \cup {y}) = Bytes(K) + Size[y.archive]
  <2>1. Size[y.archive] \in Nat /\ y \notin K
    BY <1>1
  <2>2. Cardinality(K \cup {y}) = Cardinality(K) + 1
    BY <2>1, FS_AddElement
  <2>3. Bytes(K \cup {y}) = Bytes(K) + Size[y.archive]
    BY <1>2, <2>1, BytesOfOneMore DEF SizeOf
  <2> QED
    BY <2>1, <2>2, <2>3
<1> QED
  BY <1>3, <1>4

LEMMA NoRoomStays ==
  ASSUME NEW p \in Policies, NEW K, K \subseteq Items, IsFiniteSet(K),
         NEW x \in Items, NEW y \in Items,
         ~Room(p, x, K)
  PROVE  ~Room(p, x, K \cup {y})
<1>1. CASE y \in K
  <2>1. K \cup {y} = K
    BY <1>1
  <2> QED
    BY <2>1
<1>2. CASE y \notin K
  <2> DEFINE c == Cardinality(K)
             b == Bytes(K)
             c2 == Cardinality(K \cup {y})
             b2 == Bytes(K \cup {y})
             s == Size[x.archive]
             t == Size[y.archive]
             most == p.max_archives
             total == p.max_total_archive_bytes
  <2>1. c \in Nat /\ b \in Nat /\ t \in Nat /\ c2 = c + 1 /\ b2 = b + t
    BY <1>2, Sizes
  <2>2. most \in Nat /\ total \in Nat
    BY PolicyAssumption
  <2>3. s \in Nat
    BY ContentAssumption DEF Items
  <2>4. ~(c < most /\ b + s <= total)
    BY DEF Room
  <2> HIDE DEF c, b, c2, b2, s, t, most, total
  <2>5. ~(c2 < most /\ b2 + s <= total)
    BY <2>1, <2>2, <2>3, <2>4
  <2> QED
    BY <2>5 DEF Room, c2, b2, s, most, total
<1> QED
  BY <1>1, <1>2

\* One more archive that no representative of its failure comes after takes no place from
\* a representative.
LEMMA OneMoreRepresentative ==
  ASSUME NEW K, NEW y, y \notin K,
         \A x \in RepresentativesOf(K) : SameFailure(x, y) => Newer(x, y)
  PROVE  RepresentativesOf(K \cup {y}) \in {RepresentativesOf(K), RepresentativesOf(K) \cup {y}}
<1>1. RepresentativesOf(K) \subseteq RepresentativesOf(K \cup {y})
  BY DEF RepresentativesOf
<1>2. RepresentativesOf(K \cup {y}) \subseteq RepresentativesOf(K) \cup {y}
  BY DEF RepresentativesOf
<1> QED
  BY <1>1, <1>2

----------------------------------------------------------------------------
(* One archive is ranked.                                                  *)

LEMMA Keeping ==
  ASSUME NEW step \in {"rank", "fill"}, NEW p \in Policies,
         NEW E, E \subseteq Items, NEW U, U \subseteq Items,
         NEW K, K \subseteq Items, NEW D, D \subseteq Items,
         Ranked(step, p, E, U, K, D), NEW x \in E, \A y \in E \ {x} : Newer(x, y),
         step = "rank" /\ p.preserve_unique_failures => ~Represents(K, x),
         Room(p, x, K)
  PROVE  Ranked(step, p, E \ {x}, U, K \cup {x}, D)
<1> DEFINE E2 == E \ {x}
           K2 == K \cup {x}
<1>1. /\ Listings(step, E, U, K, D) /\ Justified(p, K, D)
      /\ p.preserve_unique_failures => Represented(step, E, U, K)
  BY DEF Ranked
<1>2. x \notin K /\ x \in Items /\ IsFiniteSet(K)
  BY <1>1 DEF Listings
<1>3. Listings(step, E2, U, K2, D)
  <2>1. IsFiniteSet(E2) /\ IsFiniteSet(K2)
    BY <1>1, FS_Subset, FS_AddElement DEF Listings
  <2> QED
    BY <1>1, <2>1 DEF Listings
<1>4. Cardinality(K2) <= p.max_archives /\ Bytes(K2) <= p.max_total_archive_bytes
  <2> DEFINE c == Cardinality(K)
             b == Bytes(K)
             c2 == Cardinality(K2)
             b2 == Bytes(K2)
             s == Size[x.archive]
             most == p.max_archives
             total == p.max_total_archive_bytes
  <2>1. c \in Nat /\ b \in Nat /\ s \in Nat /\ c2 = c + 1 /\ b2 = b + s
    BY <1>2, Sizes
  <2>2. most \in Nat /\ total \in Nat
    BY PolicyAssumption
  <2>3. c < most /\ b + s <= total
    BY DEF Room
  <2> HIDE DEF c, b, c2, b2, s, most, total
  <2>4. c2 <= most /\ b2 <= total
    BY <2>1, <2>2, <2>3
  <2> QED
    BY <2>4 DEF c2, b2, most, total
<1>5. ASSUME p.preserve_unique_failures
      PROVE  /\ Represented(step, E2, U, K2)
             /\ RepresentativesOf(K2) \in {RepresentativesOf(K), RepresentativesOf(K) \cup {x}}
  <2>1. Represented(step, E, U, K)
    BY <1>1, <1>5
  <2>2. \A y : Represents(K, y) => Represents(K2, y)
    BY DEF Represents
  <2>3. CASE step = "rank"
    <3>1. \A y \in K : ~SameFailure(x, y) /\ ~SameFailure(y, x)
      BY <1>5, <2>3 DEF Represents, SameFailure
    <3>2. RepresentativesOf(K2) \in {RepresentativesOf(K), RepresentativesOf(K) \cup {x}}
      <4>1. \A y \in RepresentativesOf(K) : ~SameFailure(y, x)
        BY <3>1 DEF RepresentativesOf
      <4> QED
        BY <1>2, <4>1, OneMoreRepresentative
    <3>3. \A y, z \in K2 : SameFailure(y, z) => y = z
      BY <2>1, <2>3, <3>1 DEF Represented
    <3>4. \A y \in K2, z \in E2 : Newer(y, z)
      BY <2>1, <2>3 DEF Represented
    <3>5. ASSUME NEW y \in U
          PROVE  /\ Represents(K2, y)
                 /\ \A z \in RepresentativesOf(K2) : SameFailure(z, y) => Newer(z, y)
      <4>1. y \in PutOff(step, E, U)
        BY <2>3 DEF PutOff
      <4>2. /\ Represents(K, y)
            /\ \A z \in RepresentativesOf(K) : SameFailure(z, y) => Newer(z, y)
        BY <2>1, <4>1 DEF Represented
      <4>3. ~SameFailure(x, y)
        BY <3>1, <4>2 DEF Represents, SameFailure
      <4> QED
        BY <2>2, <3>2, <4>2, <4>3
    <3>6. Represented(step, E2, U, K2)
      BY <2>3, <3>3, <3>4, <3>5 DEF Represented, PutOff
    <3> QED
      BY <3>2, <3>6
  <2>4. CASE step = "fill"
    <3>1. PutOff(step, E, U) = E /\ PutOff(step, E2, U) = E2
      BY <1>1, <2>4 DEF PutOff, Listings
    <3>2. \A y \in E : /\ Represents(K, y)
                       /\ \A z \in RepresentativesOf(K) : SameFailure(z, y) => Newer(z, y)
      BY <2>1, <3>1 DEF Represented
    <3>3. RepresentativesOf(K2) \in {RepresentativesOf(K), RepresentativesOf(K) \cup {x}}
      BY <1>2, <3>2, OneMoreRepresentative
    <3>4. \A y \in E2 : \A z \in RepresentativesOf(K2) : SameFailure(z, y) => Newer(z, y)
      BY <3>2, <3>3
    <3>5. Represented(step, E2, U, K2)
      BY <2>2, <2>4, <3>1, <3>2, <3>4 DEF Represented
    <3> QED
      BY <3>3, <3>5
  <2> QED
    BY <2>3, <2>4
<1>6. ASSUME NEW y \in D
      PROVE  /\ ~Room(p, y, K2)
             /\ p.preserve_unique_failures /\ ~Represents(K2, y) =>
                  ~Room(p, y, RepresentativesOf(K2))
  <2>1. ~Room(p, y, K2)
    BY <1>1, <1>2, NoRoomStays DEF Justified
  <2>2. ASSUME p.preserve_unique_failures, ~Represents(K2, y)
        PROVE  ~Room(p, y, RepresentativesOf(K2))
    <3>1. ~Represents(K, y)
      BY <2>2 DEF Represents
    <3>2. ~Room(p, y, RepresentativesOf(K))
      BY <1>1, <2>2, <3>1 DEF Justified
    <3>3. RepresentativesOf(K) \subseteq Items /\ IsFiniteSet(RepresentativesOf(K))
      BY <1>2, FS_Subset DEF RepresentativesOf
    <3>4. ~Room(p, y, RepresentativesOf(K) \cup {x})
      BY <1>2, <3>2, <3>3, NoRoomStays
    <3> QED
      BY <1>5, <2>2, <3>2, <3>4
  <2> QED
    BY <2>1, <2>2
<1>7. Justified(p, K2, D)
  BY <1>4, <1>6 DEF Justified
<1> QED
  BY <1>3, <1>5, <1>7 DEF Ranked

LEMMA Dropping ==
  ASSUME NEW step \in {"rank", "fill"}, NEW p \in Policies,
         NEW E, NEW U, NEW K, NEW D,
         Ranked(step, p, E, U, K, D), NEW x \in E,
         step = "rank" /\ p.preserve_unique_failures => ~Represents(K, x),
         ~Room(p, x, K)
  PROVE  Ranked(step, p, E \ {x}, U, K, D \cup {x})
<1>1. /\ Listings(step, E, U, K, D) /\ Justified(p, K, D)
      /\ p.preserve_unique_failures => Represented(step, E, U, K)
  BY DEF Ranked
<1>2. Listings(step, E \ {x}, U, K, D \cup {x})
  <2>1. IsFiniteSet(E \ {x})
    BY <1>1, FS_Subset DEF Listings
  <2> QED
    BY <1>1, <2>1 DEF Listings
<1>3. p.preserve_unique_failures => Represented(step, E \ {x}, U, K)
  <2>1. PutOff(step, E \ {x}, U) \subseteq PutOff(step, E, U)
    BY DEF PutOff
  <2> QED
    BY <1>1, <2>1 DEF Represented
<1>4. ASSUME p.preserve_unique_failures, ~Represents(K, x)
      PROVE  ~Room(p, x, RepresentativesOf(K))
  <2>1. step = "rank"
    <3>1. step = "fill" => x \in PutOff(step, E, U)
      BY DEF PutOff
    <3> QED
      BY <1>1, <1>4, <3>1 DEF Represented
  <2>2. RepresentativesOf(K) = K
    BY <1>1, <1>4, <2>1 DEF Represented, RepresentativesOf
  <2> QED
    BY <2>2
<1>5. Justified(p, K, D \cup {x})
  BY <1>1, <1>4 DEF Justified
<1> QED
  BY <1>2, <1>3, <1>5 DEF Ranked

LEMMA PuttingOff ==
  ASSUME NEW p, NEW E, NEW U, NEW K, NEW D,
         Ranked("rank", p, E, U, K, D), NEW x \in E,
         p.preserve_unique_failures, Represents(K, x)
  PROVE  Ranked("rank", p, E \ {x}, U \cup {x}, K, D)
<1>1. /\ Listings("rank", E, U, K, D) /\ Justified(p, K, D)
      /\ Represented("rank", E, U, K)
  BY DEF Ranked
<1>2. Listings("rank", E \ {x}, U \cup {x}, K, D)
  <2>1. IsFiniteSet(E \ {x}) /\ IsFiniteSet(U \cup {x})
    BY <1>1, FS_Subset, FS_AddElement DEF Listings
  <2> QED
    BY <1>1, <2>1 DEF Listings
<1>3. Represented("rank", E \ {x}, U \cup {x}, K)
  <2>1. \A y \in PutOff("rank", E \ {x}, U \cup {x}) : y = x \/ y \in PutOff("rank", E, U)
    BY DEF PutOff
  <2>2. \A z \in RepresentativesOf(K) : Newer(z, x)
    BY <1>1 DEF Represented, RepresentativesOf
  <2> QED
    BY <1>1, <2>1, <2>2 DEF Represented
<1> QED
  BY <1>1, <1>2, <1>3 DEF Ranked

----------------------------------------------------------------------------
(* The whole pass.                                                         *)

LEMMA StepsRank ==
  ASSUME TypeOK, RInv, NEW x \in eligible, Rank(x)
  PROVE  RInv'
<1> DEFINE E == eligible
           U == duplicates
           K == kept
           D == Dropped
<1>1. /\ retention \in {"rank", "fill"} /\ policy \in Policies
      /\ E \subseteq Items /\ U \subseteq Items /\ K \subseteq Items
      /\ removal_candidates \in Seq(Items)
      /\ retention' = retention /\ policy' = policy /\ eligible' = E \ {x}
      /\ \A y \in E \ {x} : Newer(x, y)
  BY DEF Rank, TypeOK, Newest
<1>2. D \subseteq Items
  BY <1>1 DEF Dropped
<1>3. Ranked(retention, policy, E, U, K, D)
  BY DEF RInv
<1>4. Fits(x, K) <=> Room(policy, x, K)
  BY DEF Fits, Room
<1>5. CASE Deferred(x)
  <2>1. duplicates' = U \cup {x} /\ kept' = K /\ removal_candidates' = removal_candidates
    BY <1>5 DEF Rank
  <2>2. retention = "rank" /\ policy.preserve_unique_failures /\ Represents(K, x)
    BY <1>5 DEF Deferred, Retention
  <2>3. Ranked("rank", policy, E \ {x}, U \cup {x}, K, D)
    <3> HIDE DEF E, U, K, D
    <3> QED
      BY <1>3, <2>2, PuttingOff DEF E
  <2>4. Dropped' = D
    BY <2>1 DEF Dropped
  <2> QED
    BY <1>1, <2>1, <2>2, <2>3, <2>4 DEF RInv
<1>6. CASE ~Deferred(x)
  <2>0. retention = "rank" /\ policy.preserve_unique_failures => ~Represents(K, x)
    BY <1>6 DEF Deferred, Retention
  <2>1. CASE Fits(x, K)
    <3>1. duplicates' = U /\ kept' = K \cup {x} /\ removal_candidates' = removal_candidates
      BY <1>6, <2>1 DEF Rank
    <3>2. Ranked(retention, policy, E \ {x}, U, K \cup {x}, D)
      <4>1. x \in E
        OBVIOUS
      <4> HIDE DEF E, U, K, D
      <4> QED
        BY <1>1, <1>2, <1>3, <1>4, <2>0, <2>1, <4>1, Keeping
    <3>3. Dropped' = D
      BY <3>1 DEF Dropped
    <3> QED
      BY <1>1, <3>1, <3>2, <3>3 DEF RInv
  <2>2. CASE ~Fits(x, K)
    <3>1. /\ duplicates' = U /\ kept' = K
          /\ removal_candidates' = Append(removal_candidates, x)
      BY <1>6, <2>2 DEF Rank
    <3>2. Ranked(retention, policy, E \ {x}, U, K, D \cup {x})
      <4>1. x \in E
        OBVIOUS
      <4> HIDE DEF E, U, K, D
      <4> QED
        BY <1>1, <1>3, <1>4, <2>0, <2>2, <4>1, Dropping
    <3>3. Dropped' = D \cup {x}
      <4>1. x \in Items
        BY <1>1
      <4> QED
        BY <1>1, <3>1, <4>1, Appending DEF Dropped
    <3> QED
      BY <1>1, <3>1, <3>2, <3>3 DEF RInv
  <2> QED
    BY <2>1, <2>2
<1> QED
  BY <1>5, <1>6

LEMMA StepsElsewhere ==
  ASSUME TypeOK, Listed, RInv, [Next]_vars, ~\E x \in eligible : Rank(x)
  PROVE  RInv'
<1>1. /\ Listings(retention, eligible, duplicates, kept, Dropped)
      /\ Justified(policy, kept, Dropped)
      /\ policy.preserve_unique_failures => Represented(retention, eligible, duplicates, kept)
  BY DEF RInv, Ranked
<1>2. removal_candidates \in Seq(Items)
      /\ retention \in {"list", "stat", "read", "rank", "fill", "recheck", "unlink", "done"}
  BY DEF TypeOK
<1> DEFINE Quiet == {"list", "stat", "read", "recheck", "unlink", "done"}
\* Outside the ranking passes only what is listed and what is dropped matters.
<1>3. ASSUME NEW step \in Quiet, NEW D, D \subseteq Dropped, NEW E,
             Listings(step, E, duplicates, kept, D)
      PROVE  Ranked(step, policy, E, duplicates, kept, D)
  <2>1. PutOff(step, E, duplicates) = {}
    BY DEF PutOff
  <2>2. Represented(step, E, duplicates, kept)
    BY <2>1 DEF Represented
  <2>3. Justified(policy, kept, D)
    BY <1>1, <1>3 DEF Justified
  <2> QED
    BY <1>3, <2>2, <2>3 DEF Ranked
<1>4. UNCHANGED pass => RInv'
  BY DEF pass, RInv, Dropped
<1>5. CASE List \/ \E n \in todo : Stat(n)
  <2>1. /\ retention \in Quiet /\ retention' \in {"stat", "read"}
        /\ retention \in {"list", "stat"}
        /\ UNCHANGED <<policy, eligible, duplicates, kept, removal_candidates>>
    BY <1>5 DEF List, Stat, Retention, Then
  <2>2. Dropped' = Dropped
    BY <2>1 DEF Dropped
  <2>3. Listings(retention', eligible, duplicates, kept, Dropped)
    BY <1>1, <2>1 DEF Listings
  <2> QED
    BY <1>3, <2>1, <2>2, <2>3 DEF RInv
<1>6. ASSUME NEW n \in todo, Read(n) PROVE RInv'
  <2> DEFINE x == [name |-> n, mtime |-> seen.mtime, archive |-> ContentAt(n),
                   identity |-> seen.identity]
  <2>1. /\ retention = "read" /\ retention' = "stat"
        /\ eligible' = eligible \cup {y \in {x} : y.archive \in Archive}
        /\ UNCHANGED <<policy, duplicates, kept, removal_candidates>>
    BY <1>6 DEF Read, Retention, Then
  <2>2. Dropped' = Dropped
    BY <2>1 DEF Dropped
  <2> HIDE DEF x
  <2>3. eligible' \in {eligible, eligible \cup {x}}
    BY <2>1
  <2>4. Listings("stat", eligible', duplicates, kept, Dropped)
    <3>1. IsFiniteSet(eligible')
      BY <1>1, <2>3, FS_AddElement DEF Listings
    <3> QED
      BY <1>1, <2>1, <3>1 DEF Listings
  <2> QED
    BY <1>3, <2>1, <2>2, <2>4 DEF RInv
<1>7. CASE StartRanking
  <2>1. /\ retention = "stat" /\ retention' = "rank"
        /\ UNCHANGED <<policy, eligible, duplicates, kept, removal_candidates>>
    BY <1>7 DEF StartRanking, Retention, Then
  <2>2. Dropped' = Dropped
    BY <2>1 DEF Dropped
  <2>3. duplicates = {} /\ kept = {}
    BY <1>1, <2>1 DEF Listings
  <2>4. Listings("rank", eligible, duplicates, kept, Dropped)
    BY <1>1, <2>1 DEF Listings
  <2>5. Represented("rank", eligible, duplicates, kept)
    BY <2>3 DEF Represented, PutOff
  <2> QED
    BY <1>1, <2>1, <2>2, <2>4, <2>5 DEF RInv, Ranked
<1>8. CASE EndPass
  <2>1. /\ retention \in {"rank", "fill"} /\ eligible = {}
        /\ retention' = IF retention = "rank" THEN "fill" ELSE "recheck"
        /\ eligible' = duplicates /\ duplicates' = {}
        /\ UNCHANGED <<policy, kept, removal_candidates>>
    BY <1>8 DEF EndPass, Retention, Then
  <2>2. Dropped' = Dropped
    BY <2>1 DEF Dropped
  <2>3. Listings(retention', duplicates, {}, kept, Dropped)
    <3>1. IsFiniteSet({})
      BY FS_EmptySet
    <3> QED
      BY <1>1, <2>1, <3>1 DEF Listings
  <2>4. PutOff(retention', duplicates, {}) \subseteq PutOff(retention, eligible, duplicates)
    BY <1>1, <2>1 DEF PutOff, Listings
  <2>5. policy.preserve_unique_failures => Represented(retention', duplicates, {}, kept)
    BY <1>1, <2>1, <2>4 DEF Represented
  <2> QED
    BY <1>1, <2>1, <2>2, <2>3, <2>5 DEF RInv, Ranked
<1>9. CASE Recheck \/ Remove \/ Report
  <2>1. /\ retention \in {"recheck", "unlink"} /\ retention' \in {"recheck", "unlink", "done"}
        /\ UNCHANGED <<policy, eligible, duplicates, kept>>
        /\ \/ removal_candidates' = removal_candidates
           \/ removal_candidates # <<>> /\ removal_candidates' = Tail(removal_candidates)
    BY <1>9 DEF Recheck, Remove, Report, Retention, Then, Listed
  <2>2. Dropped' \subseteq Dropped
    BY <1>2, <2>1, Taking DEF Dropped
  <2>3. Listings(retention', eligible, duplicates, kept, Dropped')
    BY <1>1, <2>1 DEF Listings
  <2> QED
    BY <1>3, <2>1, <2>2, <2>3 DEF RInv
<1>10. CASE Replay \/ OtherProgram \/ UNCHANGED vars
  BY <1>4, <1>10 DEF Replay, ReadArchive, Run, OtherProgram, Delete, Replace, Rewrite, vars
<1>11. ASSUME NEW e \in Exporter, Export(e) PROVE RInv'
  BY <1>4, <1>11 DEF Export, Check, Stage, Write, FileSync, Look, Link, Confirm, CleanUp,
     DirectorySync, Kill
<1> QED
  BY <1>5, <1>6, <1>7, <1>8, <1>9, <1>10, <1>11 DEF Next, Retain

\* What a pass drops did not fit: neither beside all it kept nor, when it preserves unique
\* failures and lost the failure altogether, beside one archive per kept failure.
THEOREM DroppedBecauseItDidNotFit == Spec => []OnlyWhatDoesNotFitIsDropped
<1>1. Init => RInv
  <2> SUFFICES ASSUME Init PROVE RInv
    OBVIOUS
  <2>1. /\ retention = "list" /\ policy \in Policies
        /\ eligible = {} /\ duplicates = {} /\ kept = {} /\ removal_candidates = <<>>
    BY DEF Init
  <2>2. Dropped = {}
    BY <2>1 DEF Dropped
  <2>3. Listings(retention, eligible, duplicates, kept, Dropped)
    BY <2>1, <2>2, FS_EmptySet DEF Listings
  <2>4. Represented(retention, eligible, duplicates, kept)
    BY <2>1 DEF Represented, PutOff
  <2>5. Justified(policy, kept, Dropped)
    <3>1. Cardinality(kept) = 0 /\ Bytes(kept) = 0
      BY <2>1, FS_EmptySet, BytesByPicking
    <3>2. policy.max_archives \in Nat /\ policy.max_total_archive_bytes \in Nat
      BY <2>1, PolicyAssumption
    <3> QED
      BY <2>2, <3>1, <3>2 DEF Justified
  <2> QED
    BY <2>3, <2>4, <2>5 DEF RInv, Ranked
<1>2. TypeOK /\ Listed /\ RInv /\ [Next]_vars => RInv'
  BY StepsRank, StepsElsewhere
<1>3. RInv => OnlyWhatDoesNotFitIsDropped
  BY JustifiedIsTheProperty DEF RInv, Ranked
<1> QED
  BY <1>1, <1>2, <1>3, WellTyped, PTL DEF Spec, Typed
=============================================================================
