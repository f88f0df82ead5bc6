-------------------------- MODULE FileServerProofs --------------------------
(***************************************************************************)
(* Theorems about FileServer, for any number of threads, paths and files.  *)
(* What is served is as fresh as its floor because everything a thread can *)
(* still read, the file, the inodes that are open, the bodies under way    *)
(* and the entries of the cache, is at least as fresh.                     *)
(***************************************************************************)
EXTENDS FileServer, SequenceTheorems, TLAPS

-----------------------------------------------------------------------------
Complete(content) == \E v \in 1 .. version: content = Whole(v)

(* A file has an inode of its own; one that nobody writes is whole.        *)
Disk ==
    /\ \A f, g \in Files: dir[f] = dir[g] /\ dir[f] # 0 => f = g
    /\ \A f \in Files: writing[f] # 0 => dir[f] # 0 /\ Len(inodes[dir[f]]) < Blocks
    /\ \A f \in Files: writing[f] # 0 =>
         \A b \in 1 .. Len(inodes[dir[f]]): inodes[dir[f]][b] = writing[f]
    /\ \A i \in 1 .. Len(inodes):
         Complete(inodes[i]) \/ \E f \in Files: dir[f] = i /\ writing[f] # 0

(* What a thread has open and has read.                                    *)
Reader(t) ==
    /\ pc[t] \in {"idle", "get", "check", "open"} => body[t] = <<>>
    /\ pc[t] = "open" => Target[key[t]] \in Files
    /\ pc[t] = "read" => fd[t] # 0 /\ \A f \in Files: dir[f] = fd[t] => Target[key[t]] = f
    /\ pc[t] = "read" /\ ~disturbed[t] =>
         /\ Complete(inodes[fd[t]])
         /\ \A b \in 1 .. Len(body[t]): body[t][b] = inodes[fd[t]][b]
    /\ pc[t] \in {"put", "done"} /\ ~hit[t] /\ ~disturbed[t] => Complete(body[t])

FileFresh(f, v) ==
    /\ dir[f] # 0 => ~Old(inodes[dir[f]], v)
    /\ writing[f] # 0 => v <= writing[f]

(* Nothing that can still be served for k is older than v.                 *)
Fresh(k, v) ==
    /\ \A t \in Threads: key[t] = k /\ pc[t] # "idle" => ~Old(body[t], v)
    /\ \A t \in Threads: key[t] = k /\ pc[t] = "read" => ~Old(inodes[fd[t]], v)
    /\ \A e \in DOMAIN cache: cache[e].key = k => ~Old(cache[e].body, v)
    /\ \A f \in Files: Target[k] = f => FileFresh(f, v)

IInv ==
    /\ TypeOK /\ Disk
    /\ \A t \in Threads: Reader(t)
    /\ \A k \in Keys: Fresh(k, floor[k])

-----------------------------------------------------------------------------
(* Contents.                                                               *)
LEMMA NothingOld == \A v: ~Old(<<>>, v)
  BY DEF Old

LEMMA WholeContents ==
  ASSUME NEW v \in 1 .. Versions
  PROVE  Whole(v) \in Contents /\ Len(Whole(v)) = Blocks /\ \A b \in 1 .. Blocks: Whole(v)[b] = v
  <1>1. Blocks \in Nat
    BY FileServerAssumption
  <1>2. \A b \in 1 .. Blocks: v \in 1 .. Versions
    OBVIOUS
  <1>3. Whole(v) \in Seq(1 .. Versions)
    BY <1>1, <1>2, IsASeq DEF Whole
  <1>4. Len(Whole(v)) = Blocks
    BY <1>1, <1>3, LenProperties DEF Whole
  <1>5. QED
    BY <1>1, <1>3, <1>4 DEF Contents, Whole

(* A block more.                                                           *)
LEMMA OneMore ==
  ASSUME NEW content \in Contents, Len(content) < Blocks, NEW v \in 1 .. Versions
  PROVE  /\ Append(content, v) \in Contents
         /\ Len(Append(content, v)) = Len(content) + 1
         /\ \A b \in 1 .. Len(content): Append(content, v)[b] = content[b]
         /\ Append(content, v)[Len(content) + 1] = v
  BY FileServerAssumption DEF Contents

LEMMA AppendFresh ==
  ASSUME NEW content \in Contents, Len(content) < Blocks, NEW v \in 1 .. Versions,
         NEW w \in Nat, ~Old(content, w), w <= v
  PROVE  ~Old(Append(content, v), w)
  <1>1. /\ Append(content, v) \in Contents
        /\ Len(Append(content, v)) = Len(content) + 1
        /\ \A b \in 1 .. Len(content): Append(content, v)[b] = content[b]
        /\ Append(content, v)[Len(content) + 1] = v
    BY OneMore
  <1>2. DOMAIN Append(content, v) = 1 .. Len(content) + 1 /\ DOMAIN content = 1 .. Len(content)
        /\ Len(content) \in Nat
    BY <1>1, LenProperties DEF Contents
  <1>3. ASSUME NEW b \in 1 .. Len(content) + 1 PROVE ~(Append(content, v)[b] < w)
    <2>1. CASE b = Len(content) + 1
      BY <1>1, <2>1
    <2>2. CASE b # Len(content) + 1
      <3>1. b \in 1 .. Len(content)
        BY <1>2, <2>2
      <3>2. QED
        BY <1>1, <1>2, <3>1 DEF Old
    <2>3. QED
      BY <2>1, <2>2
  <1>4. QED
    BY <1>2, <1>3 DEF Old

-----------------------------------------------------------------------------
(* Lists: an element taken out, one put first.                             *)
LEMMA TakenOut ==
  ASSUME NEW S, NEW s \in Seq(S), NEW a \in 1 .. Len(s)
  PROVE  /\ RemoveAt(s, a) \in Seq(S) /\ Len(RemoveAt(s, a)) = Len(s) - 1
         /\ \A i \in 1 .. a - 1: RemoveAt(s, a)[i] = s[i]
         /\ \A i \in a .. Len(s) - 1: RemoveAt(s, a)[i] = s[i + 1]
  <1> DEFINE front == SubSeq(s, 1, a - 1)
             back == SubSeq(s, a + 1, Len(s))
  <1>1. Len(s) \in Nat /\ \A i \in 1 .. Len(s): s[i] \in S
    BY LenProperties, ElementOfSeq
  <1>2. /\ front \in Seq(S) /\ Len(front) = a - 1
        /\ \A i \in 1 .. a - 1: front[i] = s[i]
    <2>1. a - 1 \in Int /\ \A i \in 1 .. a - 1: s[i] \in S
      BY <1>1
    <2>2. /\ front \in Seq(S) /\ Len(front) = IF 1 <= a - 1 THEN (a - 1) - 1 + 1 ELSE 0
          /\ \A i \in 1 .. (a - 1) - 1 + 1: front[i] = s[1 + i - 1]
      BY <2>1, SubSeqProperties
    <2> HIDE DEF front
    <2>3. QED
      BY <2>1, <2>2
  <1>3. /\ back \in Seq(S) /\ Len(back) = Len(s) - a
        /\ \A i \in 1 .. Len(s) - a: back[i] = s[a + i]
    <2>1. a + 1 \in Int /\ Len(s) \in Int /\ \A i \in a + 1 .. Len(s): s[i] \in S
      BY <1>1
    <2>2. /\ back \in Seq(S)
          /\ Len(back) = IF a + 1 <= Len(s) THEN Len(s) - (a + 1) + 1 ELSE 0
          /\ \A i \in 1 .. Len(s) - (a + 1) + 1: back[i] = s[(a + 1) + i - 1]
      BY <2>1, SubSeqProperties
    <2> HIDE DEF back
    <2>3. Len(back) = Len(s) - a
      BY <1>1, <2>2
    <2>4. ASSUME NEW i \in 1 .. Len(s) - a PROVE back[i] = s[a + i]
      <3>1. i \in 1 .. Len(s) - (a + 1) + 1 /\ (a + 1) + i - 1 = a + i
        BY <1>1
      <3>2. QED
        BY <2>2, <3>1
    <2>5. QED
      BY <2>2, <2>3, <2>4
  <1>4. RemoveAt(s, a) = front \o back
    BY DEF RemoveAt
  <1> HIDE DEF front, back
  <1>5. /\ front \o back \in Seq(S)
        /\ Len(front \o back) = Len(front) + Len(back)
        /\ \A i \in 1 .. Len(front) + Len(back):
             (front \o back)[i] = IF i <= Len(front) THEN front[i] ELSE back[i - Len(front)]
    BY <1>2, <1>3, ConcatProperties
  <1>6. ASSUME NEW i \in 1 .. a - 1 PROVE RemoveAt(s, a)[i] = s[i]
    BY <1>1, <1>2, <1>3, <1>4, <1>5
  <1>7. ASSUME NEW i \in a .. Len(s) - 1 PROVE RemoveAt(s, a)[i] = s[i + 1]
    <2>1. /\ i \in 1 .. Len(front) + Len(back) /\ ~(i <= Len(front))
          /\ i - Len(front) \in 1 .. Len(s) - a /\ a + (i - Len(front)) = i + 1
      BY <1>1, <1>2, <1>3
    <2>2. (front \o back)[i] = back[i - Len(front)]
      BY <1>5, <2>1
    <2>3. QED
      BY <1>3, <1>4, <2>1, <2>2
  <1>8. Len(RemoveAt(s, a)) = Len(s) - 1
    BY <1>1, <1>2, <1>3, <1>4, <1>5
  <1>9. QED
    BY <1>4, <1>5, <1>6, <1>7, <1>8

LEMMA PutFirst ==
  ASSUME NEW S, NEW s \in Seq(S), NEW x \in S
  PROVE  /\ <<x>> \o s \in Seq(S) /\ Len(<<x>> \o s) = Len(s) + 1
         /\ (<<x>> \o s)[1] = x
         /\ \A i \in 2 .. Len(s) + 1: (<<x>> \o s)[i] = s[i - 1]
  <1> DEFINE one == <<x>>
  <1>1. one \in Seq(S) /\ Len(one) = 1 /\ one[1] = x /\ Len(s) \in Nat
    OBVIOUS
  <1> HIDE DEF one
  <1>2. /\ one \o s \in Seq(S) /\ Len(one \o s) = Len(one) + Len(s)
        /\ \A i \in 1 .. Len(one) + Len(s):
             (one \o s)[i] = IF i <= Len(one) THEN one[i] ELSE s[i - Len(one)]
    BY <1>1, ConcatProperties
  <1>3. Len(one \o s) = Len(s) + 1 /\ (one \o s)[1] = x
    BY <1>1, <1>2
  <1>4. ASSUME NEW i \in 2 .. Len(s) + 1 PROVE (one \o s)[i] = s[i - 1]
    BY <1>1, <1>2
  <1>5. QED
    BY <1>2, <1>3, <1>4 DEF one

-----------------------------------------------------------------------------
(* The cache's list: an entry taken out of it, an entry put first.         *)
Entries == [key: Keys, body: Contents]

Listed(list) ==
    /\ list \in Seq(Entries)
    /\ \A d, e \in 1 .. Len(list): list[d].key = list[e].key => d = e

LEMMA CacheListed ==
  ASSUME CacheTypeOK
  PROVE  /\ Listed(cache) /\ Len(cache) \in Nat /\ Len(cache) <= Capacity
         /\ DOMAIN cache = 1 .. Len(cache)
         /\ \A e \in 1 .. Len(cache): cache[e] \in Entries
  <1>1. /\ cache \in Seq(Entries) /\ Len(cache) <= Capacity
        /\ \A d, e \in DOMAIN cache: cache[d].key = cache[e].key => d = e
    BY DEF CacheTypeOK, Entries
  <1>2. Len(cache) \in Nat /\ DOMAIN cache = 1 .. Len(cache)
    BY <1>1, LenProperties
  <1>3. \A e \in 1 .. Len(cache): cache[e] \in Entries
    BY <1>1, ElementOfSeq
  <1>4. QED
    BY <1>1, <1>2, <1>3 DEF Listed

LEMMA SplicedOut ==
  ASSUME CacheTypeOK, NEW k \in Keys
  PROVE  /\ Listed(Without(k)) /\ Len(Without(k)) \in Nat /\ Len(Without(k)) <= Len(cache)
         /\ k \in Cached => Len(Without(k)) = Len(cache) - 1
         /\ \A d \in 1 .. Len(Without(k)):
              Without(k)[d].key # k /\ \E e \in 1 .. Len(cache): Without(k)[d] = cache[e]
  <1>1. /\ Listed(cache) /\ Len(cache) \in Nat /\ DOMAIN cache = 1 .. Len(cache)
    BY CacheListed
  <1>2. CASE k \notin Cached
    <2>1. Without(k) = cache
      BY <1>2 DEF Without
    <2>2. \A e \in 1 .. Len(cache): cache[e].key # k
      BY <1>1, <1>2 DEF Cached
    <2>3. \A d \in 1 .. Len(cache): cache[d].key # k /\ \E e \in 1 .. Len(cache): cache[d] = cache[e]
      BY <2>2
    <2>4. Len(cache) <= Len(cache)
      BY <1>1
    <2>5. QED
      BY <1>1, <1>2, <2>1, <2>3, <2>4
  <1>3. CASE k \in Cached
    <2> DEFINE a == At(k)
               w == Without(k)
    <2>1. a \in 1 .. Len(cache) /\ cache[a].key = k
      BY <1>1, <1>3 DEF At, Cached
    <2>2. w = RemoveAt(cache, a)
      BY <1>3 DEF Without
    <2> HIDE DEF a, w
    <2>3. /\ w \in Seq(Entries) /\ Len(w) = Len(cache) - 1
          /\ \A i \in 1 .. a - 1: w[i] = cache[i]
          /\ \A i \in a .. Len(cache) - 1: w[i] = cache[i + 1]
      BY <1>1, <2>1, <2>2, TakenOut DEF Listed
    <2> DEFINE from(i) == IF i < a THEN i ELSE i + 1
    <2>4. ASSUME NEW i \in 1 .. Len(w)
          PROVE  from(i) \in 1 .. Len(cache) /\ from(i) # a /\ w[i] = cache[from(i)]
      <3>1. CASE i < a
        <4>1. i \in 1 .. a - 1
          BY <2>1, <3>1
        <4>2. QED
          BY <1>1, <2>1, <2>3, <3>1, <4>1
      <3>2. CASE ~(i < a)
        <4>1. i \in a .. Len(cache) - 1
          BY <1>1, <2>1, <2>3, <3>2
        <4>2. QED
          BY <1>1, <2>1, <2>3, <3>2, <4>1
      <3>3. QED
        BY <3>1, <3>2
    <2>5. \A i, j \in 1 .. Len(w): from(i) = from(j) => i = j
      BY <1>1, <2>1, <2>3
    <2> HIDE DEF from
    <2>6. \A d, e \in 1 .. Len(w): w[d].key = w[e].key => d = e
      BY <1>1, <2>4, <2>5 DEF Listed
    <2>7. \A d \in 1 .. Len(w): w[d].key # k /\ \E e \in 1 .. Len(cache): w[d] = cache[e]
      BY <1>1, <2>1, <2>4 DEF Listed
    <2>8. QED
      BY <1>1, <2>3, <2>6, <2>7 DEF w, Listed
  <1>4. QED
    BY <1>2, <1>3

EntryFirst(x) == <<x>> \o Without(x.key)

LEMMA FirstListed ==
  ASSUME CacheTypeOK, NEW x \in Entries
  PROVE  /\ Listed(EntryFirst(x)) /\ Len(EntryFirst(x)) = Len(Without(x.key)) + 1
         /\ \A d \in 1 .. Len(EntryFirst(x)):
              EntryFirst(x)[d] = x \/ \E e \in 1 .. Len(cache): EntryFirst(x)[d] = cache[e]
  <1> DEFINE k == x.key
             list == EntryFirst(x)
             w == Without(k)
  <1>1. k \in Keys
    BY DEF Entries
  <1>2. /\ Listed(w) /\ Len(w) \in Nat
        /\ \A d \in 1 .. Len(w): w[d].key # k /\ \E e \in 1 .. Len(cache): w[d] = cache[e]
    BY <1>1, SplicedOut
  <1>3. list = <<x>> \o w
    BY DEF EntryFirst
  <1> HIDE DEF w, k, list
  <1>4. /\ list \in Seq(Entries) /\ Len(list) = Len(w) + 1 /\ list[1] = x
        /\ \A i \in 2 .. Len(w) + 1: list[i] = w[i - 1]
    BY <1>2, <1>3, PutFirst DEF Listed
  <1>5. \A i \in 1 .. Len(list): i = 1 \/ (i \in 2 .. Len(w) + 1 /\ i - 1 \in 1 .. Len(w))
    BY <1>2, <1>4
  <1>6. ASSUME NEW d \in 1 .. Len(list), NEW e \in 1 .. Len(list), list[d].key = list[e].key
        PROVE  d = e
    <2>1. CASE d = 1 /\ e = 1
      BY <2>1
    <2>2. CASE d = 1 /\ e # 1
      BY <1>2, <1>4, <1>5, <1>6, <2>2 DEF k
    <2>3. CASE d # 1 /\ e = 1
      BY <1>2, <1>4, <1>5, <1>6, <2>3 DEF k
    <2>4. CASE d # 1 /\ e # 1
      <3>1. w[d - 1].key = w[e - 1].key /\ d - 1 \in 1 .. Len(w) /\ e - 1 \in 1 .. Len(w)
        BY <1>4, <1>5, <1>6, <2>4
      <3>2. d - 1 = e - 1
        BY <1>2, <3>1 DEF Listed
      <3>3. QED
        BY <3>2
    <2>5. QED
      BY <2>1, <2>2, <2>3, <2>4
  <1>7. ASSUME NEW d \in 1 .. Len(list)
        PROVE  list[d] = x \/ \E e \in 1 .. Len(cache): list[d] = cache[e]
    BY <1>2, <1>4, <1>5
  <1>8. QED
    BY <1>4, <1>6, <1>7 DEF k, w, list, Listed

(* The least recently used entry gives way.                                *)
LEMMA CutOff ==
  ASSUME NEW list, Listed(list), Len(list) > Capacity
  PROVE  /\ Listed(SubSeq(list, 1, Capacity)) /\ Len(SubSeq(list, 1, Capacity)) = Capacity
         /\ \A d \in 1 .. Capacity: SubSeq(list, 1, Capacity)[d] = list[d] /\ d \in 1 .. Len(list)
  <1> DEFINE cut == SubSeq(list, 1, Capacity)
  <1>1. Len(list) \in Nat /\ Capacity \in Nat \ {0} /\ \A i \in 1 .. Capacity: list[i] \in Entries
    BY LenProperties, ElementOfSeq, FileServerAssumption DEF Listed
  <1>2. /\ cut \in Seq(Entries) /\ Len(cut) = IF 1 <= Capacity THEN Capacity - 1 + 1 ELSE 0
        /\ \A i \in 1 .. Capacity - 1 + 1: cut[i] = list[1 + i - 1]
    BY <1>1, SubSeqProperties
  <1> HIDE DEF cut
  <1>3. Len(cut) = Capacity /\ \A d \in 1 .. Capacity: cut[d] = list[d] /\ d \in 1 .. Len(list)
    BY <1>1, <1>2
  <1>4. QED
    BY <1>2, <1>3 DEF cut, Listed

-----------------------------------------------------------------------------
LEMMA FileInit == Init => IInv
  <1> SUFFICES ASSUME Init PROVE IInv
    OBVIOUS
  <1> USE FileServerAssumption
  <1>1. <<>> \in Contents /\ \A S: <<>> \in Seq(S) /\ Len(<<>>) = 0
    BY DEF Contents
  <1>2. DiskTypeOK
    BY <1>1 DEF Init, DiskTypeOK
  <1>3. CacheTypeOK
    BY <1>1 DEF Init, CacheTypeOK
  <1>4. ThreadTypeOK
    BY <1>1 DEF Init, ThreadTypeOK, Steps
  <1>5. TypeOK
    BY <1>2, <1>3, <1>4 DEF Init, TypeOK
  <1>6. Disk /\ \A t \in Threads: Reader(t)
    BY <1>1 DEF Init, Disk, Reader
  <1>7. \A k \in Keys: Fresh(k, floor[k])
    BY <1>1 DEF Init, Fresh, FileFresh
  <1>8. QED
    BY <1>5, <1>6, <1>7 DEF IInv

-----------------------------------------------------------------------------
(* A file at rest is whole: its last block names the version it holds.     *)
LEMMA RestIsWhole ==
  ASSUME DiskTypeOK, Disk, NEW f \in Files, dir[f] # 0, writing[f] = 0
  PROVE  Complete(inodes[dir[f]]) /\ dir[f] \in 1 .. Len(inodes)
  <1>1. dir[f] \in 1 .. Len(inodes)
    BY LenProperties DEF DiskTypeOK
  <1>2. ~\E g \in Files: dir[g] = dir[f] /\ writing[g] # 0
    BY DEF Disk
  <1>3. QED
    BY <1>1, <1>2 DEF Disk

LEMMA WholeNotOld ==
  ASSUME NEW v \in 1 .. Versions, NEW w \in Nat, w <= v
  PROVE  ~Old(Whole(v), w)
  BY DEF Old, Whole

Rising == \A k \in Keys: floor[k] <= floor'[k]

(* The floor: raised only where nothing can be served but the file.        *)
LEMMA FloorRaised ==
  ASSUME TypeOK, DiskTypeOK', CacheTypeOK', ThreadTypeOK', Disk', version <= version', RaiseFloor,
         \A t \in Threads: Reader(t)',
         \A k \in Keys: \A v \in Nat: v = floor[k] => Fresh(k, v)'
  PROVE  IInv' /\ Rising
  <1>1. \A k \in Keys: floor'[k] = IF Unserved(k)' THEN Current(k)' ELSE floor[k]
    BY DEF RaiseFloor
  <1>2. version \in Nat /\ version' \in 0 .. Versions /\ Versions \in Nat
    BY FileServerAssumption DEF TypeOK, DiskTypeOK
  <1>3. ASSUME NEW k \in Keys PROVE floor'[k] \in 0 .. version' /\ Fresh(k, floor[k])' /\ floor[k] <= floor'[k]
    <2>1. CASE Unserved(k)'
      <3> DEFINE f == Target[k]
      <3>1. f \in Files /\ dir'[f] # 0 /\ writing'[f] = 0 /\ k \notin Cached' /\ k \notin InFlight'
        BY <2>1 DEF Unserved, AtRest
      <3>2. Complete(inodes[dir[f]])'
        <4>1. dir'[f] \in 1 .. Len(inodes')
          BY <3>1, LenProperties DEF DiskTypeOK
        <4>2. ~\E g \in Files: dir'[g] = dir'[f] /\ writing'[g] # 0
          BY <3>1 DEF Disk
        <4>3. QED
          BY <4>1, <4>2 DEF Disk
      <3>3. PICK w \in 1 .. version': inodes'[dir'[f]] = Whole(w)
        BY <3>2 DEF Complete, Whole
      <3>4. w \in 1 .. Versions /\ w \in Nat
        BY <1>2
      <3>5. floor'[k] = w
        <4>1. Whole(w)[Blocks] = w
          BY FileServerAssumption DEF Whole
        <4>2. QED
          BY <1>1, <2>1, <3>3, <4>1 DEF Current
      <3>6. ~Old(inodes'[dir'[f]], w)
        BY <3>3, <3>4, WholeNotOld
      <3>7. Fresh(k, w)'
        BY <3>1, <3>6 DEF Fresh, FileFresh, Cached, InFlight
      <3>8. floor[k] <= w
        <4>1. floor[k] \in Nat /\ DOMAIN Whole(w) = 1 .. Blocks /\ Whole(w)[Blocks] = w /\ Blocks \in 1 .. Blocks
          BY FileServerAssumption DEF TypeOK, Whole
        <4>2. ~Old(Whole(w), floor[k])
          BY <3>1, <3>3, <4>1 DEF Fresh, FileFresh
        <4>3. QED
          BY <3>4, <4>1, <4>2 DEF Old
      <3>9. QED
        BY <1>2, <3>5, <3>7, <3>8 DEF Fresh, FileFresh, Old
    <2>2. CASE ~Unserved(k)'
      <3>1. floor'[k] = floor[k] /\ floor[k] \in 0 .. version /\ floor[k] \in Nat
        BY <1>1, <2>2 DEF TypeOK
      <3>2. PICK v \in Nat: v = floor[k] /\ Fresh(k, v)'
        BY <3>1
      <3>3. QED
        BY <1>2, <3>1, <3>2 DEF Fresh, FileFresh, Old
    <2>3. QED
      BY <2>1, <2>2
  <1>4. floor' \in [Keys -> 0 .. version']
    BY <1>3 DEF RaiseFloor
  <1>5. QED
    BY <1>3, <1>4 DEF IInv, TypeOK, Rising

-----------------------------------------------------------------------------
(* A step of one thread: the disk and the other threads stay as they are.  *)
LEMMA ThreadMoves ==
  ASSUME IInv, NEW t \in Threads, UNCHANGED diskVars, RaiseFloor, CacheTypeOK', ThreadTypeOK',
         \A u \in Threads \ {t}: /\ pc'[u] = pc[u] /\ key'[u] = key[u] /\ fd'[u] = fd[u]
                                 /\ body'[u] = body[u] /\ hit'[u] = hit[u]
                                 /\ disturbed'[u] = disturbed[u],
         Reader(t)',
         pc'[t] # "idle" => ~Old(body'[t], floor[key'[t]]),
         pc'[t] = "read" => ~Old(inodes[fd'[t]], floor[key'[t]]),
         \A e \in DOMAIN cache': ~Old(cache'[e].body, floor[cache'[e].key])
  PROVE  IInv' /\ Rising
  <1>1. UNCHANGED <<inodes, dir, writing, version>>
    BY DEF diskVars
  <1>2. TypeOK /\ DiskTypeOK' /\ version <= version'
    BY <1>1, FileServerAssumption DEF IInv, TypeOK, DiskTypeOK
  <1>3. Disk'
    BY <1>1 DEF IInv, Disk, Complete
  <1>4. ASSUME NEW u \in Threads PROVE Reader(u)'
    <2>1. CASE u = t
      BY <2>1
    <2>2. CASE u # t
      BY <1>1, <2>2 DEF IInv, Reader, Complete
    <2>3. QED
      BY <2>1, <2>2
  <1>5. ASSUME NEW k \in Keys, NEW v \in Nat, v = floor[k] PROVE Fresh(k, v)'
    <2>1. Fresh(k, v)
      BY <1>5 DEF IInv
    <2>2. ASSUME NEW u \in Threads, key'[u] = k
          PROVE  /\ pc'[u] # "idle" => ~Old(body'[u], v)
                 /\ pc'[u] = "read" => ~Old(inodes'[fd'[u]], v)
      <3>1. CASE u = t
        BY <1>1, <1>5, <2>2, <3>1
      <3>2. CASE u # t
        BY <1>1, <2>1, <2>2, <3>2 DEF Fresh
      <3>3. QED
        BY <3>1, <3>2
    <2>3. \A e \in DOMAIN cache': cache'[e].key = k => ~Old(cache'[e].body, v)
      BY <1>5
    <2>4. \A f \in Files: Target[k] = f => FileFresh(f, v)'
      BY <1>1, <2>1 DEF Fresh, FileFresh
    <2>5. QED
      BY <2>2, <2>3, <2>4 DEF Fresh, FileFresh, Old
  <1>6. QED
    BY <1>2, <1>3, <1>4, <1>5, FloorRaised

(* What a thread knows before its step.                                    *)
LEMMA ThreadKnows ==
  ASSUME IInv, NEW t \in Threads
  PROVE  /\ pc[t] \in Steps /\ key[t] \in Keys /\ fd[t] \in 0 .. Len(inodes)
         /\ body[t] \in Contents /\ hit[t] \in BOOLEAN /\ disturbed[t] \in BOOLEAN
         /\ floor[key[t]] \in Nat
         /\ Reader(t)
         /\ pc[t] # "idle" => ~Old(body[t], floor[key[t]])
         /\ pc[t] = "read" => ~Old(inodes[fd[t]], floor[key[t]])
         /\ \A e \in DOMAIN cache: ~Old(cache[e].body, floor[cache[e].key])
  <1>1. ThreadTypeOK /\ floor \in [Keys -> 0 .. version] /\ Reader(t)
    BY DEF IInv, TypeOK
  <1>2. pc[t] \in Steps /\ key[t] \in Keys /\ fd[t] \in 0 .. Len(inodes)
        /\ body[t] \in Contents /\ hit[t] \in BOOLEAN /\ disturbed[t] \in BOOLEAN
    BY <1>1 DEF ThreadTypeOK
  <1>3. Fresh(key[t], floor[key[t]]) /\ floor[key[t]] \in Nat
    BY <1>1, <1>2 DEF IInv
  <1>4. \A e \in DOMAIN cache: cache[e].key \in Keys
    BY CacheListed DEF IInv, TypeOK, Entries
  <1>5. \A e \in DOMAIN cache: ~Old(cache[e].body, floor[cache[e].key])
    BY <1>4 DEF IInv, Fresh
  <1>6. QED
    BY <1>1, <1>2, <1>3, <1>5 DEF Fresh

-----------------------------------------------------------------------------
(* The steps of serve() that read nothing: body is empty before and after. *)
LEMMA Searching ==
  ASSUME IInv, NEW t \in Threads,
         (\E k \in Keys: Serve(t, k)) \/ GetMiss(t) \/ Check(t) \/ Fail(t)
  PROVE  IInv' /\ Rising
  <1>1. ThreadTypeOK /\ CacheTypeOK /\ pc[t] \in {"idle", "get", "check", "open"} /\ body[t] = <<>>
    BY ThreadKnows DEF Serve, GetMiss, Check, Fail, Go, Reader, IInv, TypeOK
  <1>2. /\ UNCHANGED <<inodes, dir, writing, version, cache, fd, body, hit, disturbed>> /\ RaiseFloor
        /\ \E s \in {"idle", "get", "check", "open"}: pc' = [pc EXCEPT ![t] = s]
        /\ key' = key \/ \E k \in Keys: key' = [key EXCEPT ![t] = k]
    BY <1>1 DEF Serve, GetMiss, Check, Fail, Go, diskVars
  <1>3. ThreadTypeOK' /\ CacheTypeOK'
    BY <1>1, <1>2 DEF ThreadTypeOK, CacheTypeOK, Steps
  <1>4. /\ pc'[t] \in {"idle", "get", "check", "open"} /\ body'[t] = <<>>
        /\ \A u \in Threads \ {t}: pc'[u] = pc[u] /\ key'[u] = key[u]
    BY <1>1, <1>2 DEF ThreadTypeOK
  <1>5. Reader(t)'
    <2>1. pc'[t] = "open" => Target[key'[t]] \in Files
      BY <1>1 DEF Serve, GetMiss, Check, Fail, Go, ThreadTypeOK
    <2>2. QED
      BY <1>4, <2>1 DEF Reader
  <1>6. ~Old(body'[t], floor[key'[t]])
    BY <1>4, NothingOld
  <1>7. \A e \in DOMAIN cache': ~Old(cache'[e].body, floor[cache'[e].key])
    BY <1>2, ThreadKnows
  <1>8. QED
    BY <1>2, <1>3, <1>4, <1>5, <1>6, <1>7, ThreadMoves DEF diskVars

LEMMA Opening ==
  ASSUME IInv, NEW t \in Threads, Open(t)
  PROVE  IInv' /\ Rising
  <1> DEFINE f == Target[key[t]]
  <1>1. /\ pc[t] = "open" /\ pc' = [pc EXCEPT ![t] = "read"] /\ dir[f] # 0
        /\ fd' = [fd EXCEPT ![t] = dir[f]] /\ disturbed' = [disturbed EXCEPT ![t] = writing[f] # 0]
        /\ UNCHANGED <<inodes, dir, writing, version, cache, key, body, hit>> /\ RaiseFloor
    BY DEF Open, Go, diskVars
  <1>2. DiskTypeOK /\ CacheTypeOK /\ ThreadTypeOK /\ Disk /\ key[t] \in Keys /\ body[t] = <<>>
    BY <1>1, ThreadKnows DEF IInv, TypeOK, Reader
  <1>3. f \in Files
    BY <1>1, ThreadKnows DEF Reader
  <1> HIDE DEF f
  <1>4. dir[f] \in 1 .. Len(inodes)
    BY <1>1, <1>2, <1>3, LenProperties DEF DiskTypeOK
  <1>5. CacheTypeOK' /\ ThreadTypeOK'
    BY <1>1, <1>2, <1>4 DEF CacheTypeOK, ThreadTypeOK, Steps
  <1>6. /\ pc'[t] = "read" /\ key'[t] = key[t] /\ fd'[t] = dir[f] /\ body'[t] = <<>>
        /\ disturbed'[t] = (writing[f] # 0) /\ inodes' = inodes /\ dir' = dir /\ version' = version
        /\ \A u \in Threads \ {t}: pc'[u] = pc[u] /\ fd'[u] = fd[u] /\ disturbed'[u] = disturbed[u]
    BY <1>1, <1>2 DEF ThreadTypeOK
  <1>7. Reader(t)'
    <2>1. fd'[t] # 0 /\ \A g \in Files: dir'[g] = fd'[t] => Target[key'[t]] = g
      BY <1>1, <1>2, <1>3, <1>6 DEF Disk, f
    <2>2. ~disturbed'[t] => Complete(inodes[fd[t]])'
      <3>1. writing[f] = 0 => Complete(inodes[dir[f]])
        BY <1>1, <1>2, <1>3, RestIsWhole
      <3>2. QED
        BY <1>6, <3>1 DEF Complete
    <2>3. Len(body'[t]) = 0
      BY <1>6
    <2>4. \A b \in 1 .. Len(body'[t]): body'[t][b] = inodes'[fd'[t]][b]
      BY <2>3
    <2>5. QED
      BY <1>6, <2>1, <2>2, <2>4 DEF Reader
  <1>8. ~Old(body'[t], floor[key'[t]])
    BY <1>6, NothingOld
  <1>9. ~Old(inodes[fd'[t]], floor[key'[t]])
    BY <1>1, <1>2, <1>3, <1>6 DEF IInv, Fresh, FileFresh, f
  <1>10. \A e \in DOMAIN cache': ~Old(cache'[e].body, floor[cache'[e].key])
    BY <1>1, ThreadKnows
  <1>11. QED
    BY <1>1, <1>5, <1>6, <1>7, <1>8, <1>9, <1>10, ThreadMoves DEF diskVars

LEMMA Reading ==
  ASSUME IInv, NEW t \in Threads, ReadBlock(t)
  PROVE  IInv' /\ Rising
  <1> DEFINE file == inodes[fd[t]]
             block == file[Len(body[t]) + 1]
             next == Append(body[t], block)
             v == floor[key[t]]
  <1>1. /\ pc[t] = "read" /\ Len(body[t]) < Len(file) /\ body' = [body EXCEPT ![t] = next]
        /\ UNCHANGED <<inodes, dir, writing, version, cache, pc, key, fd, hit, disturbed>> /\ RaiseFloor
    BY DEF ReadBlock, diskVars
  <1>2. /\ DiskTypeOK /\ CacheTypeOK /\ ThreadTypeOK /\ body[t] \in Contents /\ fd[t] # 0 /\ v \in Nat
        /\ Reader(t) /\ ~Old(body[t], v) /\ ~Old(file, v)
    BY <1>1, ThreadKnows DEF IInv, TypeOK, Reader
  <1>3. file \in Contents
    BY <1>2, ElementOfSeq, LenProperties DEF DiskTypeOK, ThreadTypeOK
  <1> HIDE DEF file, block, next, v
  <1>4. Len(file) \in Nat /\ Len(body[t]) \in Nat /\ Len(file) <= Blocks /\ DOMAIN file = 1 .. Len(file)
        /\ Blocks \in Nat
    BY <1>2, <1>3, LenProperties, FileServerAssumption DEF Contents
  <1>5. block \in 1 .. Versions /\ v <= block /\ Len(body[t]) < Blocks
    <2>1. Len(body[t]) + 1 \in 1 .. Len(file)
      BY <1>1, <1>4
    <2>2. block \in 1 .. Versions
      BY <1>3, <2>1, ElementOfSeq DEF block, Contents
    <2>3. ~(block < v)
      BY <1>2, <1>4, <2>1 DEF block, Old
    <2>4. QED
      BY <1>1, <1>2, <1>4, <2>2, <2>3
  <1>6. /\ next \in Contents /\ Len(next) = Len(body[t]) + 1 /\ next[Len(body[t]) + 1] = block
        /\ \A b \in 1 .. Len(body[t]): next[b] = body[t][b]
    BY <1>2, <1>5, OneMore DEF next
  <1>7. CacheTypeOK' /\ ThreadTypeOK'
    BY <1>1, <1>2, <1>6 DEF CacheTypeOK, ThreadTypeOK
  <1>8. /\ body'[t] = next /\ pc'[t] = "read" /\ key'[t] = key[t] /\ fd'[t] = fd[t]
        /\ disturbed'[t] = disturbed[t] /\ \A u \in Threads \ {t}: body'[u] = body[u]
    BY <1>1, <1>2 DEF ThreadTypeOK
  <1>9. Reader(t)'
    <2>1. fd'[t] # 0 /\ \A f \in Files: dir'[f] = fd'[t] => Target[key'[t]] = f
      BY <1>1, <1>2, <1>8 DEF Reader
    <2>2. ASSUME ~disturbed'[t]
          PROVE  /\ Complete(inodes[fd[t]])'
                 /\ \A b \in 1 .. Len(body'[t]): body'[t][b] = inodes'[fd'[t]][b]
      <3>1. Complete(file) /\ \A b \in 1 .. Len(body[t]): body[t][b] = file[b]
        BY <1>1, <1>2, <1>8, <2>2 DEF Reader, file
      <3>2. ASSUME NEW b \in 1 .. Len(next) PROVE next[b] = file[b]
        <4>1. b \in 1 .. Len(body[t]) \/ b = Len(body[t]) + 1
          BY <1>4, <1>6
        <4>2. QED
          BY <1>6, <3>1, <4>1 DEF block
      <3>3. QED
        BY <1>1, <1>8, <3>1, <3>2 DEF Complete, file
    <2>3. QED
      BY <1>8, <2>1, <2>2 DEF Reader
  <1>10. ~Old(body'[t], floor[key'[t]])
    BY <1>2, <1>5, <1>8, AppendFresh DEF next, v
  <1>11. ~Old(inodes[fd'[t]], floor[key'[t]])
    BY <1>2, <1>8 DEF file, v
  <1>12. \A e \in DOMAIN cache': ~Old(cache'[e].body, floor[cache'[e].key])
    BY <1>1, ThreadKnows
  <1>13. QED
    BY <1>1, <1>7, <1>8, <1>9, <1>10, <1>11, <1>12, ThreadMoves DEF diskVars

(* The end of a read: where it was not disturbed, all of the file is there.*)
LEMMA ReadOver ==
  ASSUME IInv, NEW t \in Threads, ReadEnd(t) \/ ReadFails(t)
  PROVE  IInv' /\ Rising
  <1> DEFINE file == inodes[fd[t]]
  <1>1. /\ pc[t] = "read" /\ pc' = [pc EXCEPT ![t] = "put"]
        /\ UNCHANGED <<inodes, dir, writing, version, cache, key, fd, body, hit>> /\ RaiseFloor
        /\ \/ disturbed' = disturbed /\ Len(body[t]) >= Len(file)
           \/ disturbed' = [disturbed EXCEPT ![t] = TRUE]
    BY DEF ReadEnd, ReadFails, Go, diskVars
  <1>2. /\ DiskTypeOK /\ CacheTypeOK /\ ThreadTypeOK /\ body[t] \in Contents /\ Reader(t)
        /\ ~Old(body[t], floor[key[t]])
    BY <1>1, ThreadKnows DEF IInv, TypeOK
  <1>3. CacheTypeOK' /\ ThreadTypeOK'
    BY <1>1, <1>2 DEF CacheTypeOK, ThreadTypeOK, Steps
  <1>4. /\ pc'[t] = "put" /\ key'[t] = key[t] /\ body'[t] = body[t]
        /\ \A u \in Threads \ {t}: pc'[u] = pc[u] /\ disturbed'[u] = disturbed[u]
        /\ \/ disturbed'[t] = disturbed[t] /\ Len(body[t]) >= Len(file)
           \/ disturbed'[t] = TRUE
    BY <1>1, <1>2 DEF ThreadTypeOK
  <1>5. ASSUME ~disturbed'[t] PROVE Complete(body[t])
    <2>1. /\ Complete(file) /\ Len(body[t]) >= Len(file)
          /\ \A b \in 1 .. Len(body[t]): body[t][b] = file[b]
      BY <1>1, <1>2, <1>4, <1>5 DEF Reader
    <2>2. PICK v \in 1 .. version: file = Whole(v)
      BY <2>1 DEF Complete
    <2>3. v \in 1 .. Versions
      BY <1>2, <2>2, FileServerAssumption DEF DiskTypeOK
    <2>4. Whole(v) \in Contents /\ Len(Whole(v)) = Blocks
      BY <2>3, WholeContents
    <2>5. /\ body[t] \in Seq(1 .. Versions) /\ Whole(v) \in Seq(1 .. Versions)
          /\ Len(body[t]) = Len(Whole(v))
      BY <1>2, <2>1, <2>2, <2>4, LenProperties, FileServerAssumption DEF Contents
    <2>6. body[t] = Whole(v)
      BY <2>1, <2>2, <2>5, SeqEqual
    <2>7. QED
      BY <2>6 DEF Complete
  <1>6. Reader(t)'
    BY <1>1, <1>4, <1>5 DEF Reader, Complete
  <1>7. \A e \in DOMAIN cache': ~Old(cache'[e].body, floor[cache'[e].key])
    BY <1>1, ThreadKnows
  <1>8. QED
    BY <1>1, <1>2, <1>3, <1>4, <1>6, <1>7, ThreadMoves DEF diskVars

LEMMA Returning ==
  ASSUME IInv, NEW t \in Threads, Return(t)
  PROVE  IInv' /\ Rising
  <1>1. /\ pc[t] = "done" /\ pc' = [pc EXCEPT ![t] = "idle"] /\ fd' = [fd EXCEPT ![t] = 0]
        /\ body' = [body EXCEPT ![t] = <<>>] /\ hit' = [hit EXCEPT ![t] = FALSE]
        /\ disturbed' = [disturbed EXCEPT ![t] = FALSE]
        /\ UNCHANGED <<inodes, dir, writing, version, cache, key>> /\ RaiseFloor
    BY DEF Return, Go, diskVars
  <1>2. DiskTypeOK /\ CacheTypeOK /\ ThreadTypeOK
    BY DEF IInv, TypeOK
  <1>3. <<>> \in Contents /\ 0 \in 0 .. Len(inodes)
    BY <1>2, LenProperties, FileServerAssumption DEF Contents, DiskTypeOK
  <1>4. CacheTypeOK' /\ ThreadTypeOK'
    BY <1>1, <1>2, <1>3 DEF CacheTypeOK, ThreadTypeOK, Steps
  <1>5. /\ pc'[t] = "idle" /\ body'[t] = <<>>
        /\ \A u \in Threads \ {t}: /\ pc'[u] = pc[u] /\ fd'[u] = fd[u] /\ body'[u] = body[u]
                                   /\ hit'[u] = hit[u] /\ disturbed'[u] = disturbed[u]
    BY <1>1, <1>2 DEF ThreadTypeOK
  <1>6. Reader(t)'
    BY <1>5 DEF Reader
  <1>7. \A e \in DOMAIN cache': ~Old(cache'[e].body, floor[cache'[e].key])
    BY <1>1, ThreadKnows
  <1>8. QED
    BY <1>1, <1>4, <1>5, <1>6, <1>7, ThreadMoves DEF diskVars

(* A hit: the entry is the answer, and goes first.                         *)
LEMMA Hitting ==
  ASSUME IInv, NEW t \in Threads, GetHit(t)
  PROVE  IInv' /\ Rising
  <1>1. PICK e \in DOMAIN cache:
          /\ cache[e].key = key[t]
          /\ body' = [body EXCEPT ![t] = cache[e].body]
          /\ cache' = <<cache[e]>> \o Without(key[t])
    BY DEF GetHit
  <1> DEFINE x == cache[e]
  <1>2. /\ pc[t] = "get" /\ pc' = [pc EXCEPT ![t] = "done"] /\ hit' = [hit EXCEPT ![t] = TRUE]
        /\ UNCHANGED <<inodes, dir, writing, version, key, fd, disturbed>> /\ RaiseFloor
    BY DEF GetHit, Go, diskVars
  <1>3. DiskTypeOK /\ CacheTypeOK /\ ThreadTypeOK /\ key[t] \in Keys
    BY ThreadKnows DEF IInv, TypeOK
  <1>4. /\ x \in Entries /\ x.key = key[t] /\ key[t] \in Cached /\ e \in 1 .. Len(cache)
        /\ Len(cache) \in Nat /\ Len(cache) <= Capacity /\ DOMAIN cache = 1 .. Len(cache)
    BY <1>1, <1>3, CacheListed DEF Cached
  <1> HIDE DEF x
  <1>5. cache' = EntryFirst(x)
    BY <1>1, <1>4 DEF EntryFirst, x
  <1>6. /\ Listed(cache') /\ Len(cache') = Len(Without(key[t])) + 1
        /\ \A d \in 1 .. Len(cache'): cache'[d] = x \/ \E b \in 1 .. Len(cache): cache'[d] = cache[b]
    BY <1>3, <1>4, <1>5, FirstListed
  <1>7. Len(Without(key[t])) = Len(cache) - 1
    BY <1>3, <1>4, SplicedOut
  <1>8. Len(cache') = Len(cache) /\ DOMAIN cache' = 1 .. Len(cache')
    BY <1>4, <1>6, <1>7, LenProperties DEF Listed
  <1>9. CacheTypeOK'
    BY <1>4, <1>6, <1>8 DEF Listed, CacheTypeOK, Entries
  <1>10. x.body \in Contents /\ body' = [body EXCEPT ![t] = x.body]
    BY <1>1, <1>4 DEF Entries, x
  <1>11. ThreadTypeOK'
    BY <1>2, <1>3, <1>10 DEF ThreadTypeOK, Steps
  <1>12. /\ pc'[t] = "done" /\ body'[t] = x.body /\ hit'[t] = TRUE /\ key'[t] = key[t]
         /\ \A u \in Threads \ {t}: pc'[u] = pc[u] /\ body'[u] = body[u] /\ hit'[u] = hit[u]
    BY <1>2, <1>3, <1>10 DEF ThreadTypeOK
  <1>13. Reader(t)'
    BY <1>12 DEF Reader
  <1>14. ~Old(body'[t], floor[key'[t]])
    BY <1>4, <1>12, ThreadKnows DEF x
  <1>15. \A d \in DOMAIN cache': ~Old(cache'[d].body, floor[cache'[d].key])
    BY <1>4, <1>6, <1>8, ThreadKnows DEF x
  <1>16. QED
    BY <1>2, <1>9, <1>11, <1>12, <1>13, <1>14, <1>15, ThreadMoves DEF diskVars

LEMMA Putting ==
  ASSUME IInv, NEW t \in Threads, Put(t)
  PROVE  IInv' /\ Rising
  <1> DEFINE x == [key |-> key[t], body |-> body[t]]
             list == EntryFirst(x)
  <1>1. /\ pc[t] = "put" /\ pc' = [pc EXCEPT ![t] = "done"]
        /\ UNCHANGED <<inodes, dir, writing, version, key, fd, body, hit, disturbed>> /\ RaiseFloor
        /\ cache' = IF Len(list) > Capacity THEN SubSeq(list, 1, Capacity) ELSE list
    BY DEF Put, Go, diskVars, EntryFirst
  <1>2. /\ DiskTypeOK /\ CacheTypeOK /\ ThreadTypeOK /\ key[t] \in Keys /\ body[t] \in Contents
        /\ Reader(t) /\ ~Old(body[t], floor[key[t]])
    BY <1>1, ThreadKnows DEF IInv, TypeOK
  <1>3. x \in Entries /\ x.key = key[t] /\ x.body = body[t]
    BY <1>2 DEF Entries
  <1> HIDE DEF x
  <1>4. /\ Listed(list)
        /\ \A d \in 1 .. Len(list): list[d] = x \/ \E e \in 1 .. Len(cache): list[d] = cache[e]
    BY <1>2, <1>3, FirstListed
  <1> HIDE DEF list
  <1>5. Len(list) \in Nat /\ Capacity \in Nat
    BY <1>4, LenProperties, FileServerAssumption DEF Listed
  <1>6. /\ Listed(cache') /\ Len(cache') \in Nat /\ Len(cache') <= Capacity
        /\ \A d \in 1 .. Len(cache'): d \in 1 .. Len(list) /\ cache'[d] = list[d]
    <2>1. CASE Len(list) > Capacity
      BY <1>1, <1>4, <1>5, <2>1, CutOff
    <2>2. CASE ~(Len(list) > Capacity)
      BY <1>1, <1>4, <1>5, <2>2
    <2>3. QED
      BY <2>1, <2>2
  <1>7. DOMAIN cache' = 1 .. Len(cache')
    BY <1>6, LenProperties DEF Listed
  <1>8. CacheTypeOK'
    BY <1>6, <1>7 DEF Listed, CacheTypeOK, Entries
  <1>9. ThreadTypeOK'
    BY <1>1, <1>2 DEF ThreadTypeOK, Steps
  <1>10. /\ pc'[t] = "done" /\ body'[t] = body[t] /\ key'[t] = key[t]
         /\ \A u \in Threads \ {t}: pc'[u] = pc[u]
    BY <1>1, <1>2 DEF ThreadTypeOK
  <1>11. Reader(t)'
    BY <1>1, <1>2, <1>10 DEF Reader, Complete
  <1>12. ~Old(body'[t], floor[key'[t]])
    BY <1>2, <1>10
  <1>13. \A d \in DOMAIN cache': ~Old(cache'[d].body, floor[cache'[d].key])
    <2>1. DOMAIN cache = 1 .. Len(cache)
      BY <1>2, CacheListed
    <2>2. ASSUME NEW d \in 1 .. Len(cache')
          PROVE  cache'[d] = x \/ \E e \in DOMAIN cache: cache'[d] = cache[e]
      BY <1>4, <1>6, <2>1
    <2>3. ~Old(x.body, floor[x.key])
      BY <1>2, <1>3
    <2>4. \A e \in DOMAIN cache: ~Old(cache[e].body, floor[cache[e].key])
      BY ThreadKnows
    <2>5. QED
      BY <1>7, <2>2, <2>3, <2>4
  <1>14. QED
    BY <1>1, <1>8, <1>9, <1>10, <1>11, <1>12, <1>13, ThreadMoves DEF diskVars


-----------------------------------------------------------------------------
(* A step of another program: threads and cache stay as they are.          *)
LEMMA DiskMoves ==
  ASSUME IInv, UNCHANGED <<cache, pc, key, fd, body, hit>>, RaiseFloor,
         DiskTypeOK', Disk', version <= version', Len(inodes) <= Len(inodes'),
         disturbed' \in [Threads -> BOOLEAN],
         \A t \in Threads: ~disturbed'[t] => ~disturbed[t],
         \A t \in Threads: pc[t] = "read" /\ ~disturbed'[t] => inodes'[fd[t]] = inodes[fd[t]],
         \A f \in Files: dir'[f] \in 1 .. Len(inodes) => dir'[f] = dir[f],
         \A i \in 1 .. Len(inodes): \A v \in 0 .. version:
             ~Old(inodes[i], v) /\ (\A f \in Files: dir[f] = i => FileFresh(f, v)) => ~Old(inodes'[i], v),
         \A f \in Files: \A v \in 0 .. version: FileFresh(f, v) => FileFresh(f, v)'
  PROVE  IInv' /\ Rising
  <1>1. /\ DiskTypeOK /\ CacheTypeOK /\ ThreadTypeOK /\ TypeOK /\ Len(inodes) \in Nat /\ Len(inodes') \in Nat
        /\ version \in Nat /\ version' \in Nat
    BY LenProperties, FileServerAssumption DEF IInv, TypeOK, DiskTypeOK
  <1>2. CacheTypeOK'
    BY <1>1 DEF CacheTypeOK
  <1>3. ThreadTypeOK'
    BY <1>1 DEF ThreadTypeOK
  <1>4. ASSUME NEW t \in Threads, pc[t] = "read"
        PROVE  fd[t] \in 1 .. Len(inodes) /\ \A f \in Files: dir'[f] = fd[t] => dir[f] = fd[t]
    BY <1>1, <1>4 DEF IInv, Reader, ThreadTypeOK
  <1>5. ASSUME NEW t \in Threads PROVE Reader(t)'
    <2>1. Reader(t)
      BY DEF IInv
    <2>2. pc[t] = "read" => \A f \in Files: dir'[f] = fd[t] => Target[key[t]] = f
      BY <1>4, <2>1 DEF Reader
    <2>3. \A content: Complete(content) => Complete(content)'
      BY <1>1 DEF Complete, Whole
    <2>4. pc[t] = "read" /\ ~disturbed'[t] =>
            /\ Complete(inodes[fd[t]])'
            /\ \A b \in 1 .. Len(body[t]): body[t][b] = inodes'[fd[t]][b]
      BY <2>1, <2>3 DEF Reader
    <2>5. pc[t] \in {"put", "done"} /\ ~hit[t] /\ ~disturbed'[t] => Complete(body[t])'
      BY <2>1, <2>3 DEF Reader
    <2>6. QED
      BY <2>1, <2>2, <2>4, <2>5 DEF Reader
  <1>6. ASSUME NEW k \in Keys, NEW v \in Nat, v = floor[k] PROVE Fresh(k, v)'
    <2>1. Fresh(k, v) /\ v \in 0 .. version
      BY <1>1, <1>6 DEF IInv, TypeOK
    <2>2. ASSUME NEW t \in Threads, key[t] = k, pc[t] = "read" PROVE ~Old(inodes'[fd[t]], v)
      <3>1. \A f \in Files: dir[f] = fd[t] => FileFresh(f, v)
        BY <2>1, <2>2 DEF IInv, Reader, Fresh
      <3>2. QED
        BY <1>4, <2>1, <2>2, <3>1 DEF Fresh
    <2>3. \A f \in Files: Target[k] = f => FileFresh(f, v)'
      BY <2>1 DEF Fresh
    <2>4. QED
      BY <2>1, <2>2, <2>3 DEF Fresh, Old
  <1>7. QED
    BY <1>1, <1>2, <1>3, <1>5, <1>6, FloorRaised

LEMMA Replacing ==
  ASSUME IInv, NEW f \in Files, Replace(f)
  PROVE  IInv' /\ Rising
  <1> DEFINE new == version + 1
             n == Len(inodes)
  <1>1. /\ version < Versions /\ writing[f] = 0 /\ version' = new
        /\ inodes' = Append(inodes, Whole(new)) /\ dir' = [dir EXCEPT ![f] = n + 1]
        /\ UNCHANGED <<writing, cache, pc, key, fd, body, hit, disturbed>> /\ RaiseFloor
    BY DEF Replace, threadVars
  <1>2. /\ DiskTypeOK /\ ThreadTypeOK /\ Disk /\ n \in Nat /\ version \in Nat /\ Versions \in Nat
        /\ Blocks \in Nat \ {0}
    BY LenProperties, FileServerAssumption DEF IInv, TypeOK, DiskTypeOK
  <1>3. new \in 1 .. Versions
    BY <1>1, <1>2
  <1>4. Whole(new) \in Contents
    BY <1>3, WholeContents
  <1> HIDE DEF n
  <1>5. /\ inodes' \in Seq(Contents) /\ Len(inodes') = n + 1 /\ inodes'[n + 1] = Whole(new)
        /\ \A i \in 1 .. n: inodes'[i] = inodes[i]
    BY <1>1, <1>2, <1>4 DEF DiskTypeOK, n
  <1>6. /\ dir'[f] = n + 1 /\ \A g \in Files \ {f}: dir'[g] = dir[g]
        /\ \A g \in Files: dir[g] \in 0 .. n
    BY <1>1, <1>2 DEF DiskTypeOK, n
  <1>7. DiskTypeOK'
    BY <1>1, <1>2, <1>3, <1>5 DEF DiskTypeOK, n
  <1>8. Disk'
    <2>1. \A g, h \in Files: dir'[g] = dir'[h] /\ dir'[g] # 0 => g = h
      BY <1>2, <1>6 DEF Disk
    <2>2. ASSUME NEW g \in Files, writing'[g] # 0
          PROVE  /\ dir'[g] # 0 /\ Len(inodes'[dir'[g]]) < Blocks
                 /\ \A b \in 1 .. Len(inodes'[dir'[g]]): inodes'[dir'[g]][b] = writing'[g]
      <3>1. g # f /\ writing[g] # 0 /\ dir'[g] = dir[g] /\ dir[g] # 0
        BY <1>1, <1>2, <1>6, <2>2 DEF Disk
      <3>2. inodes'[dir'[g]] = inodes[dir[g]]
        BY <1>2, <1>5, <1>6, <3>1
      <3>3. /\ writing'[g] = writing[g] /\ Len(inodes[dir[g]]) < Blocks
            /\ \A b \in 1 .. Len(inodes[dir[g]]): inodes[dir[g]][b] = writing[g]
        BY <1>1, <1>2, <3>1 DEF Disk
      <3>4. QED
        BY <3>1, <3>2, <3>3
    <2>3. ASSUME NEW i \in 1 .. Len(inodes')
          PROVE  Complete(inodes[i])' \/ \E g \in Files: dir'[g] = i /\ writing'[g] # 0
      <3>1. CASE i = n + 1
        BY <1>1, <1>2, <1>5, <3>1 DEF Complete
      <3>2. CASE i # n + 1
        <4>1. i \in 1 .. n
          BY <1>2, <1>5, <3>2
        <4>2. Complete(inodes[i]) => Complete(inodes[i])'
          BY <1>1, <1>2, <1>5, <4>1 DEF Complete
        <4>3. \A g \in Files: writing[g] # 0 => writing'[g] # 0 /\ dir'[g] = dir[g]
          BY <1>1, <1>6
        <4>4. QED
          BY <1>2, <4>1, <4>2, <4>3 DEF Disk, n
      <3>3. QED
        BY <3>1, <3>2
    <2>4. QED
      BY <2>1, <2>2, <2>3 DEF Disk
  <1>9. ASSUME NEW g \in Files, NEW v \in 0 .. version, FileFresh(g, v) PROVE FileFresh(g, v)'
    <2>1. CASE g = f
      <3>1. v \in Nat /\ v <= new
        BY <1>2
      <3>2. ~Old(Whole(new), v)
        BY <1>3, <3>1, WholeNotOld
      <3>3. QED
        BY <1>1, <1>5, <1>6, <2>1, <3>2 DEF FileFresh, Old
    <2>2. CASE g # f
      <3>1. dir'[g] = dir[g] /\ writing'[g] = writing[g] /\ (dir[g] # 0 => inodes'[dir[g]] = inodes[dir[g]])
        BY <1>1, <1>2, <1>5, <1>6, <2>2
      <3>2. QED
        BY <1>9, <3>1 DEF FileFresh, Old
    <2>3. QED
      BY <2>1, <2>2
  <1>10. \A g \in Files: dir'[g] \in 1 .. n => dir'[g] = dir[g]
    BY <1>2, <1>6
  <1>11. \A t \in Threads: pc[t] = "read" => inodes'[fd[t]] = inodes[fd[t]]
    BY <1>2, <1>5 DEF IInv, Reader, ThreadTypeOK, n
  <1>12. version <= version' /\ n <= Len(inodes') /\ disturbed' \in [Threads -> BOOLEAN]
    BY <1>1, <1>2, <1>5 DEF ThreadTypeOK
  <1>13. QED
    BY <1>1, <1>5, <1>7, <1>8, <1>9, <1>10, <1>11, <1>12, DiskMoves DEF n, Old

LEMMA Unlinking ==
  ASSUME IInv, NEW f \in Files, Unlink(f)
  PROVE  IInv' /\ Rising
  <1>1. /\ writing[f] = 0 /\ dir[f] # 0 /\ dir' = [dir EXCEPT ![f] = 0]
        /\ UNCHANGED <<inodes, writing, version, cache, pc, key, fd, body, hit, disturbed>> /\ RaiseFloor
    BY DEF Unlink, threadVars
  <1>2. /\ DiskTypeOK /\ ThreadTypeOK /\ Disk /\ Len(inodes) \in Nat /\ version \in Nat
    BY LenProperties, FileServerAssumption DEF IInv, TypeOK, DiskTypeOK
  <1>3. dir'[f] = 0 /\ \A g \in Files \ {f}: dir'[g] = dir[g]
    BY <1>1, <1>2 DEF DiskTypeOK
  <1>4. DiskTypeOK'
    BY <1>1, <1>2 DEF DiskTypeOK
  <1>5. Disk'
    <2>1. \A g \in Files: writing[g] # 0 => g # f /\ dir'[g] = dir[g]
      BY <1>1, <1>3
    <2>2. \A content: Complete(content) => Complete(content)'
      BY <1>1 DEF Complete
    <2>3. \A g, h \in Files: dir'[g] = dir'[h] /\ dir'[g] # 0 => g = h
      BY <1>2, <1>3 DEF Disk
    <2>4. \A i \in 1 .. Len(inodes'):
            Complete(inodes[i])' \/ \E g \in Files: dir'[g] = i /\ writing'[g] # 0
      BY <1>1, <1>2, <2>1 DEF Disk, Complete
    <2>5. QED
      BY <1>1, <1>2, <2>1, <2>3, <2>4 DEF Disk
  <1>6. \A g \in Files: \A v \in 0 .. version: FileFresh(g, v) => FileFresh(g, v)'
    BY <1>1, <1>3 DEF FileFresh, Old
  <1>7. /\ \A g \in Files: dir'[g] \in 1 .. Len(inodes) => dir'[g] = dir[g]
        /\ disturbed' \in [Threads -> BOOLEAN] /\ version <= version' /\ Len(inodes) <= Len(inodes')
    BY <1>1, <1>2, <1>3 DEF ThreadTypeOK
  <1>8. QED
    BY <1>1, <1>4, <1>5, <1>6, <1>7, DiskMoves

LEMMA Rewriting ==
  ASSUME IInv, NEW f \in Files, Rewrite(f)
  PROVE  IInv' /\ Rising
  <1> DEFINE new == version + 1
             d == dir[f]
  <1>1. /\ version < Versions /\ writing[f] = 0 /\ d # 0 /\ version' = new
        /\ inodes' = [inodes EXCEPT ![d] = <<>>] /\ writing' = [writing EXCEPT ![f] = new]
        /\ disturbed' = [t \in Threads |-> disturbed[t] \/ (pc[t] = "read" /\ fd[t] = d)]
        /\ UNCHANGED <<dir, cache, pc, key, fd, body, hit>> /\ RaiseFloor
    BY DEF Rewrite, Disturb
  <1>2. /\ DiskTypeOK /\ ThreadTypeOK /\ Disk /\ Len(inodes) \in Nat /\ version \in Nat
        /\ Versions \in Nat /\ Blocks \in Nat \ {0} /\ <<>> \in Contents
    BY LenProperties, FileServerAssumption DEF IInv, TypeOK, DiskTypeOK, Contents
  <1>3. new \in 1 .. Versions /\ new # 0 /\ d \in 1 .. Len(inodes)
    BY <1>1, <1>2 DEF DiskTypeOK
  <1>4. /\ inodes' \in Seq(Contents) /\ Len(inodes') = Len(inodes) /\ inodes'[d] = <<>>
        /\ \A i \in 1 .. Len(inodes): i # d => inodes'[i] = inodes[i]
    BY <1>1, <1>2, <1>3, ExceptSeq DEF DiskTypeOK
  <1>5. writing'[f] = new /\ \A g \in Files \ {f}: writing'[g] = writing[g]
    BY <1>1, <1>2 DEF DiskTypeOK
  <1>6. \A g \in Files \ {f}: dir[g] # d /\ dir[g] \in 0 .. Len(inodes)
    BY <1>1, <1>2 DEF Disk, DiskTypeOK
  <1>7. DiskTypeOK'
    BY <1>1, <1>2, <1>3, <1>4 DEF DiskTypeOK
  <1> HIDE DEF new, d
  <1>8. \A g \in Files \ {f}: dir[g] # 0 => inodes'[dir[g]] = inodes[dir[g]]
    BY <1>2, <1>4, <1>6
  <1>9. Disk'
    <2>1. ASSUME NEW g \in Files, writing'[g] # 0
          PROVE  /\ dir'[g] # 0 /\ Len(inodes'[dir'[g]]) < Blocks
                 /\ \A b \in 1 .. Len(inodes'[dir'[g]]): inodes'[dir'[g]][b] = writing'[g]
      <3>1. CASE g = f
        <4>1. inodes'[dir'[g]] = <<>> /\ dir'[g] # 0
          BY <1>1, <1>4, <3>1 DEF d
        <4>2. Len(inodes'[dir'[g]]) = 0
          BY <4>1
        <4>3. QED
          BY <1>2, <4>1, <4>2
      <3>2. CASE g # f
        <4>1. /\ writing'[g] = writing[g] /\ dir'[g] = dir[g] /\ dir[g] # 0
              /\ Len(inodes[dir[g]]) < Blocks
              /\ \A b \in 1 .. Len(inodes[dir[g]]): inodes[dir[g]][b] = writing[g]
          BY <1>1, <1>2, <1>5, <2>1, <3>2 DEF Disk
        <4>2. QED
          BY <1>8, <3>2, <4>1
      <3>3. QED
        BY <3>1, <3>2
    <2>2. ASSUME NEW i \in 1 .. Len(inodes')
          PROVE  Complete(inodes[i])' \/ \E g \in Files: dir'[g] = i /\ writing'[g] # 0
      <3>1. CASE i = d
        BY <1>1, <1>3, <1>5, <3>1 DEF d
      <3>2. CASE i # d
        <4>1. inodes'[i] = inodes[i] /\ i \in 1 .. Len(inodes)
          BY <1>4, <3>2
        <4>2. Complete(inodes[i]) => Complete(inodes[i])'
          BY <1>1, <1>2, <4>1 DEF Complete, new
        <4>3. \A g \in Files: dir[g] = i /\ writing[g] # 0 => dir'[g] = i /\ writing'[g] # 0
          BY <1>1, <1>5
        <4>4. QED
          BY <1>2, <4>1, <4>2, <4>3 DEF Disk
      <3>3. QED
        BY <3>1, <3>2
    <2>3. QED
      BY <1>1, <1>2, <2>1, <2>2 DEF Disk
  <1>10. ASSUME NEW g \in Files, NEW v \in 0 .. version, FileFresh(g, v) PROVE FileFresh(g, v)'
    <2>1. CASE g = f
      <3>1. ~Old(inodes'[dir'[g]], v)
        BY <1>1, <1>4, <2>1, NothingOld DEF d
      <3>2. v <= writing'[g]
        BY <1>2, <1>5, <2>1 DEF new
      <3>3. QED
        BY <3>1, <3>2 DEF FileFresh, Old
    <2>2. CASE g # f
      BY <1>1, <1>5, <1>8, <1>10, <2>2 DEF FileFresh, Old
    <2>3. QED
      BY <2>1, <2>2
  <1>11. \A i \in 1 .. Len(inodes): \A v \in 0 .. version: ~Old(inodes[i], v) => ~Old(inodes'[i], v)
    BY <1>4, NothingOld
  <1>12. /\ \A t \in Threads: ~disturbed'[t] => ~disturbed[t]
         /\ \A t \in Threads: pc[t] = "read" /\ ~disturbed'[t] => fd[t] # d
         /\ disturbed' \in [Threads -> BOOLEAN]
    BY <1>1, <1>2 DEF ThreadTypeOK
  <1>13. \A t \in Threads: pc[t] = "read" /\ ~disturbed'[t] => inodes'[fd[t]] = inodes[fd[t]]
    BY <1>2, <1>4, <1>12 DEF IInv, Reader, ThreadTypeOK
  <1>14. version <= version' /\ Len(inodes) <= Len(inodes')
    BY <1>1, <1>2, <1>4 DEF new
  <1>15. QED
    BY <1>1, <1>7, <1>9, <1>10, <1>11, <1>12, <1>13, <1>14, DiskMoves

LEMMA Writing ==
  ASSUME IInv, NEW f \in Files, WriteBlock(f)
  PROVE  IInv' /\ Rising
  <1> DEFINE d == dir[f]
             w == writing[f]
             longer == Append(inodes[d], w)
  <1>1. /\ w # 0 /\ inodes' = [inodes EXCEPT ![d] = longer]
        /\ writing' = [writing EXCEPT ![f] = IF Len(inodes'[d]) = Blocks THEN 0 ELSE w]
        /\ disturbed' = [t \in Threads |-> disturbed[t] \/ (pc[t] = "read" /\ fd[t] = d)]
        /\ UNCHANGED <<dir, version, cache, pc, key, fd, body, hit>> /\ RaiseFloor
    BY DEF WriteBlock, Disturb
  <1>2. /\ DiskTypeOK /\ ThreadTypeOK /\ Disk /\ Len(inodes) \in Nat /\ version \in Nat
        /\ Versions \in Nat /\ Blocks \in Nat \ {0} /\ version <= Versions
    BY LenProperties, FileServerAssumption DEF IInv, TypeOK, DiskTypeOK
  <1>3. /\ d \in 1 .. Len(inodes) /\ w \in 1 .. version /\ w \in 1 .. Versions
        /\ Len(inodes[d]) < Blocks /\ \A b \in 1 .. Len(inodes[d]): inodes[d][b] = w
    BY <1>1, <1>2 DEF DiskTypeOK, Disk
  <1>4. inodes[d] \in Contents /\ Len(inodes[d]) \in Nat
    BY <1>2, <1>3, ElementOfSeq, LenProperties DEF DiskTypeOK, Contents
  <1> HIDE DEF d, w
  <1>5. /\ longer \in Contents /\ Len(longer) = Len(inodes[d]) + 1
        /\ \A b \in 1 .. Len(inodes[d]): longer[b] = inodes[d][b]
        /\ longer[Len(inodes[d]) + 1] = w
    BY <1>3, <1>4, OneMore
  <1> HIDE DEF longer
  <1>6. \A b \in 1 .. Len(longer): longer[b] = w
    <2>1. \A b \in 1 .. Len(longer): b \in 1 .. Len(inodes[d]) \/ b = Len(inodes[d]) + 1
      BY <1>4, <1>5
    <2>2. QED
      BY <1>3, <1>5, <2>1
  <1>7. /\ inodes' \in Seq(Contents) /\ Len(inodes') = Len(inodes) /\ inodes'[d] = longer
        /\ \A i \in 1 .. Len(inodes): i # d => inodes'[i] = inodes[i]
    BY <1>1, <1>2, <1>3, <1>5, ExceptSeq DEF DiskTypeOK
  <1>8. /\ writing'[f] = IF Len(longer) = Blocks THEN 0 ELSE w
        /\ \A g \in Files \ {f}: writing'[g] = writing[g]
    BY <1>1, <1>2, <1>7 DEF DiskTypeOK
  <1>9. \A g \in Files \ {f}: dir[g] # d /\ dir[g] \in 0 .. Len(inodes)
    BY <1>2, <1>3 DEF Disk, DiskTypeOK, d
  <1>10. DiskTypeOK'
    BY <1>1, <1>2, <1>3, <1>7 DEF DiskTypeOK
  <1>11. \A g \in Files \ {f}: dir[g] # 0 => inodes'[dir[g]] = inodes[dir[g]]
    BY <1>2, <1>7, <1>9
  <1>12. Disk'
    <2>1. ASSUME NEW g \in Files, writing'[g] # 0
          PROVE  /\ dir'[g] # 0 /\ Len(inodes'[dir'[g]]) < Blocks
                 /\ \A b \in 1 .. Len(inodes'[dir'[g]]): inodes'[dir'[g]][b] = writing'[g]
      <3>1. CASE g = f
        <4>1. /\ dir'[g] = d /\ d # 0 /\ inodes'[dir'[g]] = longer /\ writing'[g] = w
              /\ Len(longer) # Blocks
          BY <1>1, <1>3, <1>7, <1>8, <2>1, <3>1 DEF d
        <4>2. Len(longer) < Blocks
          BY <1>2, <1>3, <1>4, <1>5, <4>1
        <4>3. QED
          BY <1>6, <4>1, <4>2
      <3>2. CASE g # f
        <4>1. /\ writing'[g] = writing[g] /\ dir'[g] = dir[g] /\ dir[g] # 0
              /\ Len(inodes[dir[g]]) < Blocks
              /\ \A b \in 1 .. Len(inodes[dir[g]]): inodes[dir[g]][b] = writing[g]
          BY <1>1, <1>2, <1>8, <2>1, <3>2 DEF Disk
        <4>2. QED
          BY <1>11, <3>2, <4>1
      <3>3. QED
        BY <3>1, <3>2
    <2>2. ASSUME NEW i \in 1 .. Len(inodes')
          PROVE  Complete(inodes[i])' \/ \E g \in Files: dir'[g] = i /\ writing'[g] # 0
      <3>1. CASE i = d /\ Len(longer) = Blocks
        <4>1. Whole(w) \in Contents /\ Len(Whole(w)) = Blocks /\ \A b \in 1 .. Blocks: Whole(w)[b] = w
          BY <1>3, WholeContents
        <4>2. longer = Whole(w)
          BY <1>5, <1>6, <3>1, <4>1, SeqEqual DEF Contents
        <4>3. inodes'[i] = Whole(w) /\ w \in 1 .. version'
          BY <1>1, <1>3, <1>7, <3>1, <4>2
        <4>4. QED
          BY <4>3 DEF Complete
      <3>2. CASE i = d /\ Len(longer) # Blocks
        BY <1>1, <1>8, <3>2 DEF d
      <3>3. CASE i # d
        <4>1. inodes'[i] = inodes[i] /\ i \in 1 .. Len(inodes)
          BY <1>7, <3>3
        <4>2. Complete(inodes[i]) => Complete(inodes[i])'
          BY <1>1, <4>1 DEF Complete
        <4>3. \A g \in Files: dir[g] = i /\ writing[g] # 0 => dir'[g] = i /\ writing'[g] # 0
          BY <1>1, <1>8, <3>3 DEF d
        <4>4. QED
          BY <1>2, <4>1, <4>2, <4>3 DEF Disk
      <3>4. QED
        BY <3>1, <3>2, <3>3
    <2>3. QED
      BY <1>1, <1>2, <2>1, <2>2 DEF Disk
  <1>13. ASSUME NEW v \in 0 .. version, FileFresh(f, v) PROVE v <= w /\ ~Old(longer, v)
    <2>1. v <= w /\ ~Old(inodes[d], v) /\ v \in Nat
      BY <1>1, <1>2, <1>3, <1>13 DEF FileFresh, d, w
    <2>2. QED
      BY <1>3, <1>4, <2>1, AppendFresh DEF longer
  <1>14. ASSUME NEW g \in Files, NEW v \in 0 .. version, FileFresh(g, v) PROVE FileFresh(g, v)'
    <2>1. CASE g = f
      BY <1>1, <1>7, <1>8, <1>13, <1>14, <2>1 DEF FileFresh, Old, d
    <2>2. CASE g # f
      BY <1>1, <1>8, <1>11, <1>14, <2>2 DEF FileFresh, Old
    <2>3. QED
      BY <2>1, <2>2
  <1>15. ASSUME NEW i \in 1 .. Len(inodes), NEW v \in 0 .. version, ~Old(inodes[i], v),
                \A g \in Files: dir[g] = i => FileFresh(g, v)
         PROVE  ~Old(inodes'[i], v)
    BY <1>7, <1>13, <1>15 DEF d
  <1>16. /\ \A t \in Threads: ~disturbed'[t] => ~disturbed[t]
         /\ \A t \in Threads: pc[t] = "read" /\ ~disturbed'[t] => fd[t] # d
         /\ disturbed' \in [Threads -> BOOLEAN]
    BY <1>1, <1>2 DEF ThreadTypeOK
  <1>17. \A t \in Threads: pc[t] = "read" /\ ~disturbed'[t] => inodes'[fd[t]] = inodes[fd[t]]
    BY <1>2, <1>7, <1>16 DEF IInv, Reader, ThreadTypeOK
  <1>18. version <= version' /\ Len(inodes) <= Len(inodes')
    BY <1>1, <1>2, <1>7
  <1>19. \A g \in Files: dir'[g] \in 1 .. Len(inodes) => dir'[g] = dir[g]
    BY <1>1
  <1>20. QED
    BY <1>1, <1>10, <1>12, <1>14, <1>15, <1>16, <1>17, <1>18, <1>19, DiskMoves


-----------------------------------------------------------------------------
LEMMA FileStep ==
  ASSUME IInv, [Next]_vars
  PROVE  IInv' /\ (UNCHANGED vars \/ Rising)
  <1>1. CASE Next
    <2>1. ASSUME NEW f \in Files, Replace(f) \/ Rewrite(f) \/ WriteBlock(f) \/ Unlink(f)
          PROVE  IInv' /\ Rising
      BY <2>1, Replacing, Rewriting, Writing, Unlinking
    <2>2. ASSUME NEW t \in Threads, ServeStep(t)
          PROVE  IInv' /\ Rising
      <3>1. CASE (\E k \in Keys: Serve(t, k)) \/ GetMiss(t) \/ Check(t) \/ Fail(t)
        BY <3>1, Searching
      <3>2. CASE GetHit(t) \/ Open(t) \/ ReadBlock(t)
        BY <3>2, Hitting, Opening, Reading
      <3>3. CASE ReadEnd(t) \/ ReadFails(t)
        BY <3>3, ReadOver
      <3>4. CASE Put(t) \/ Return(t)
        BY <3>4, Putting, Returning
      <3>5. QED
        BY <2>2, <3>1, <3>2, <3>3, <3>4 DEF ServeStep
    <2>3. QED
      BY <1>1, <2>1, <2>2 DEF Next
  <1>2. CASE UNCHANGED vars
    <2>1. UNCHANGED <<inodes, dir, writing, version, cache, pc, key, fd, body, hit, disturbed, floor>>
      BY <1>2 DEF vars, diskVars, threadVars
    <2>2. TypeOK' /\ Disk'
      BY <2>1 DEF IInv, TypeOK, DiskTypeOK, CacheTypeOK, ThreadTypeOK, Disk, Complete
    <2>3. \A t \in Threads: Reader(t)'
      BY <2>1 DEF IInv, Reader, Complete
    <2>4. \A k \in Keys: Fresh(k, floor[k])'
      BY <2>1 DEF IInv, Fresh, FileFresh, Old
    <2>5. QED
      BY <1>2, <2>2, <2>3, <2>4 DEF IInv
  <1>3. QED
    BY <1>1, <1>2

LEMMA FileInvariant == Spec => []IInv
  <1>1. IInv /\ [Next]_vars => IInv'
    BY FileStep
  <1>2. QED
    BY FileInit, <1>1, PTL DEF Spec

(* Every variable keeps to its type: put() and get() leave the cache with  *)
(* one entry for a key and no more than its capacity.                      *)
THEOREM FileTypeCorrect == Spec => []TypeOK
  <1>1. IInv => TypeOK
    BY DEF IInv
  <1>2. QED
    BY FileInvariant, <1>1, PTL

(* A body serve() read while nobody wrote its file is one version, whole,  *)
(* whatever the other threads and programs did before and after.           *)
THEOREM BodiesWhole == Spec => []ReadsWhole
  <1>1. IInv => ReadsWhole
    BY DEF IInv, Reader, Complete, ReadsWhole
  <1>2. QED
    BY FileInvariant, <1>1, PTL

(* Nothing older than a path's floor is served for it or kept in the cache.*)
THEOREM StaleOnlyAWhile == Spec => []StaysFresh
  <1>1. ASSUME IInv PROVE StaysFresh
    <2>1. \A t \in Threads: pc[t] = "done" => ~Old(body[t], floor[key[t]])
      BY <1>1, ThreadKnows
    <2>2. \A e \in DOMAIN cache: cache[e].key \in Keys
      BY <1>1, CacheListed DEF IInv, TypeOK, Entries
    <2>3. \A e \in DOMAIN cache: ~Old(cache[e].body, floor[cache[e].key])
      BY <1>1, <2>2 DEF IInv, Fresh
    <2>4. QED
      BY <2>1, <2>3 DEF StaysFresh
  <1>2. QED
    BY FileInvariant, <1>1, PTL

(* A path's floor never falls, so what StaysFresh once rules out stays     *)
(* ruled out, whatever is served, cached, evicted and rewritten since.     *)
THEOREM FloorsNeverFall == Spec => [][Rising]_vars
  <1>1. IInv /\ [Next]_vars => [Rising]_vars
    BY FileStep
  <1>2. QED
    BY FileInvariant, <1>1, PTL DEF Spec

=============================================================================
