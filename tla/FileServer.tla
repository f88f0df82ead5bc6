----------------------------- MODULE FileServer -----------------------------
(***************************************************************************)
(* FalconHTTP::FileServer: threads in StaticFileServer::serve() share a    *)
(* FileCache while the files they serve are rewritten.  serve() holds the  *)
(* cache's mutex for get() and again for put(); in between it resolves the *)
(* path, tests the file, opens it and reads it to its end.                 *)
(*                                                                         *)
(* The content of a file is a sequence of blocks, each the number of the   *)
(* version that wrote it; every version has the same number of blocks.     *)
(***************************************************************************)
EXTENDS Naturals, SequencesExt

CONSTANTS
    Threads,    \* threads that serve
    Keys,       \* request paths, the cache's keys
    Files,      \* files below the root
    Target,     \* the file a key resolves to, or Outside
    Outside,    \* what a path that isPathSafe() refuses resolves to
    Capacity,   \* cacheCapacity
    Blocks,     \* blocks of a version
    Versions    \* bound: how many versions are written, all files together

ASSUME FileServerAssumption ==
    /\ Outside \notin Files
    /\ Target \in [Keys -> Files \cup {Outside}]
    /\ Capacity \in Nat \ {0} /\ Blocks \in Nat \ {0} /\ Versions \in Nat

VARIABLES
    inodes,     \* contents on the disk, by inode number
    dir,        \* [Files -> the file's inode, 0 when it does not exist]
    writing,    \* [Files -> the version being written in place, or 0]
    version,    \* the last version whose writing began
    cache,      \* FileCache::cache_, the most recently used entry first
    pc,         \* [Threads -> Steps]: where serve() is
    key,        \* [Threads -> requestPath]
    fd,         \* [Threads -> the inode `file` has open]
    body,       \* [Threads -> contents, or the cached content]
    hit,        \* history, [Threads -> BOOLEAN]: the body is the cache's
    disturbed,  \* history, [Threads -> BOOLEAN]: the read failed or met a write
    floor       \* history, [Keys -> a version no later serve() may fall behind]

diskVars == <<inodes, dir, writing, version>>
threadVars == <<pc, key, fd, body, hit, disturbed>>
vars == <<diskVars, cache, threadVars, floor>>

-----------------------------------------------------------------------------
Steps == {"idle", "get", "check", "open", "read", "put", "done"}

Whole(v) == [b \in 1 .. Blocks |-> v]
Old(content, v) == \E b \in DOMAIN content: content[b] < v

Cached == {cache[e].key: e \in DOMAIN cache}
InFlight == {key[t]: t \in {u \in Threads: pc[u] # "idle"}}
At(k) == CHOOSE e \in DOMAIN cache: cache[e].key = k
Without(k) == IF k \in Cached THEN RemoveAt(cache, At(k)) ELSE cache

(* The file behind k is complete and at rest. *)
AtRest(k) == Target[k] \in Files /\ dir[Target[k]] # 0 /\ writing[Target[k]] = 0
Current(k) == inodes[dir[Target[k]]][Blocks]

Init ==
    /\ inodes = <<>> /\ version = 0
    /\ dir = [f \in Files |-> 0] /\ writing = [f \in Files |-> 0]
    /\ cache = <<>>
    /\ pc = [t \in Threads |-> "idle"]
    /\ key \in [Threads -> Keys]
    /\ fd = [t \in Threads |-> 0]
    /\ body = [t \in Threads |-> <<>>]
    /\ hit = [t \in Threads |-> FALSE] /\ disturbed = [t \in Threads |-> FALSE]
    /\ floor = [k \in Keys |-> 0]

(* Whenever the file behind k is at rest and k is neither cached nor being *)
(* served, what the file holds then is the least a later serve() may give. *)
Unserved(k) == AtRest(k) /\ k \notin Cached \cup InFlight
RaiseFloor == floor' = [k \in Keys |-> IF Unserved(k)' THEN Current(k)' ELSE floor[k]]

Go(t, from, to) == pc[t] = from /\ pc' = [pc EXCEPT ![t] = to]

-----------------------------------------------------------------------------
(* Faulty variants, none of them part of Next.                             *)

(* The stream a file is read into is kept from one request to the next. *)
ReturnUncleared(t) ==
    /\ Go(t, "done", "idle")
    /\ UNCHANGED <<diskVars, cache, key, fd, body, hit, disturbed>>
    /\ RaiseFloor

(* One read() is taken for the whole file. *)
ReadEndShort(t) ==
    /\ Go(t, "read", "put")
    /\ body[t] # <<>> \/ inodes[fd[t]] = <<>>
    /\ UNCHANGED <<diskVars, cache, key, fd, body, hit, disturbed>>
    /\ RaiseFloor

(* put() never evicts. *)
PutUnbounded(t) ==
    /\ Go(t, "put", "done")
    /\ cache' = <<[key |-> key[t], body |-> body[t]]>> \o Without(key[t])
    /\ UNCHANGED <<diskVars, key, fd, body, hit, disturbed>>
    /\ RaiseFloor

-----------------------------------------------------------------------------
(* Other programs write the files: a new file takes the place of the old,  *)
(* or the old one is truncated and written block by block, or removed.     *)
Replace(f) ==
    /\ version < Versions /\ writing[f] = 0
    /\ version' = version + 1
    /\ inodes' = Append(inodes, Whole(version + 1))
    /\ dir' = [dir EXCEPT ![f] = Len(inodes) + 1]
    /\ UNCHANGED <<writing, cache, threadVars>>
    /\ RaiseFloor

Disturb(f) == disturbed' = [t \in Threads |-> disturbed[t] \/ (pc[t] = "read" /\ fd[t] = dir[f])]

Rewrite(f) ==
    /\ version < Versions /\ writing[f] = 0 /\ dir[f] # 0
    /\ version' = version + 1
    /\ inodes' = [inodes EXCEPT ![dir[f]] = <<>>]
    /\ writing' = [writing EXCEPT ![f] = version + 1]
    /\ Disturb(f)
    /\ UNCHANGED <<dir, cache, pc, key, fd, body, hit>>
    /\ RaiseFloor

WriteBlock(f) ==
    /\ writing[f] # 0
    /\ inodes' = [inodes EXCEPT ![dir[f]] = Append(@, writing[f])]
    /\ writing' = [writing EXCEPT ![f] = IF Len(inodes'[dir[f]]) = Blocks THEN 0 ELSE @]
    /\ Disturb(f)
    /\ UNCHANGED <<dir, version, cache, pc, key, fd, body, hit>>
    /\ RaiseFloor

Unlink(f) ==
    /\ dir[f] # 0 /\ writing[f] = 0
    /\ dir' = [dir EXCEPT ![f] = 0]
    /\ UNCHANGED <<inodes, writing, version, cache, threadVars>>
    /\ RaiseFloor

-----------------------------------------------------------------------------
(* A route handler calls serve(k, response).                               *)
Serve(t, k) ==
    /\ Go(t, "idle", "get")
    /\ key' = [key EXCEPT ![t] = k]
    /\ UNCHANGED <<diskVars, cache, fd, body, hit, disturbed>>
    /\ RaiseFloor

(* FileCache::get(): a hit copies the entry, which is now the most recently*)
(* used, and is the answer.                                                *)
GetHit(t) ==
    /\ Go(t, "get", "done")
    /\ \E e \in DOMAIN cache:
        /\ cache[e].key = key[t]
        /\ body' = [body EXCEPT ![t] = cache[e].body]
        /\ cache' = <<cache[e]>> \o Without(key[t])
    /\ hit' = [hit EXCEPT ![t] = TRUE]
    /\ UNCHANGED <<diskVars, key, fd, disturbed>>
    /\ RaiseFloor

GetMiss(t) ==
    /\ Go(t, "get", "check")
    /\ key[t] \notin Cached
    /\ UNCHANGED <<diskVars, cache, key, fd, body, hit, disturbed>>
    /\ RaiseFloor

(* isPathSafe(), then exists() and is_regular_file(). *)
Check(t) ==
    /\ Go(t, "check", "open")
    /\ Target[key[t]] \in Files /\ dir[Target[key[t]]] # 0
    /\ UNCHANGED <<diskVars, cache, key, fd, body, hit, disturbed>>
    /\ RaiseFloor

Open(t) ==
    /\ Go(t, "open", "read")
    /\ dir[Target[key[t]]] # 0
    /\ fd' = [fd EXCEPT ![t] = dir[Target[key[t]]]]
    /\ disturbed' = [disturbed EXCEPT ![t] = writing[Target[key[t]]] # 0]
    /\ UNCHANGED <<diskVars, cache, key, body, hit>>
    /\ RaiseFloor

(* serve() returns false, or the file system throws: whatever was or was   *)
(* not found, the response and the cache are left alone.                   *)
Fail(t) ==
    /\ pc[t] \in {"check", "open"} /\ Go(t, pc[t], "idle")
    /\ UNCHANGED <<diskVars, cache, key, fd, body, hit, disturbed>>
    /\ RaiseFloor

(* contents << file.rdbuf() reads to the end of the file, as it is when the*)
(* end is reached; nobody asks whether an error ended it.                  *)
ReadBlock(t) ==
    /\ pc[t] = "read" /\ Len(body[t]) < Len(inodes[fd[t]])
    /\ body' = [body EXCEPT ![t] = Append(@, inodes[fd[t]][Len(@) + 1])]
    /\ UNCHANGED <<diskVars, cache, pc, key, fd, hit, disturbed>>
    /\ RaiseFloor

ReadEnd(t) ==
    /\ Go(t, "read", "put")
    /\ Len(body[t]) >= Len(inodes[fd[t]])
    /\ UNCHANGED <<diskVars, cache, key, fd, body, hit, disturbed>>
    /\ RaiseFloor

ReadFails(t) ==
    /\ Go(t, "read", "put")
    /\ disturbed' = [disturbed EXCEPT ![t] = TRUE]
    /\ UNCHANGED <<diskVars, cache, key, fd, body, hit>>
    /\ RaiseFloor

(* FileCache::put() and the rest of serve(): the least recently used entry *)
(* gives way when the cache is full.                                       *)
Put(t) ==
    /\ Go(t, "put", "done")
    /\ LET entries == <<[key |-> key[t], body |-> body[t]]>> \o Without(key[t])
       IN cache' = IF Len(entries) > Capacity THEN SubSeq(entries, 1, Capacity) ELSE entries
    /\ UNCHANGED <<diskVars, key, fd, body, hit, disturbed>>
    /\ RaiseFloor

(* The response is sent, and serve()'s local variables are gone. *)
Return(t) ==
    /\ Go(t, "done", "idle")
    /\ fd' = [fd EXCEPT ![t] = 0]
    /\ body' = [body EXCEPT ![t] = <<>>]
    /\ hit' = [hit EXCEPT ![t] = FALSE] /\ disturbed' = [disturbed EXCEPT ![t] = FALSE]
    /\ UNCHANGED <<diskVars, cache, key>>
    /\ RaiseFloor

ServeStep(t) ==
    \/ \E k \in Keys: Serve(t, k)
    \/ GetHit(t) \/ GetMiss(t) \/ Check(t) \/ Open(t) \/ Fail(t)
    \/ ReadBlock(t) \/ ReadEnd(t) \/ ReadFails(t) \/ Put(t) \/ Return(t)

Next ==
    \/ \E f \in Files: Replace(f) \/ Rewrite(f) \/ WriteBlock(f) \/ Unlink(f)
    \/ \E t \in Threads: ServeStep(t)

Spec == Init /\ [][Next]_vars

-----------------------------------------------------------------------------
Contents == {content \in Seq(1 .. Versions): Len(content) <= Blocks}

DiskTypeOK ==
    /\ inodes \in Seq(Contents)
    /\ dir \in [Files -> 0 .. Len(inodes)]
    /\ writing \in [Files -> 0 .. version] /\ version \in 0 .. Versions

CacheTypeOK ==
    /\ cache \in Seq([key: Keys, body: Contents])
    /\ Len(cache) <= Capacity
    /\ \A d, e \in DOMAIN cache: cache[d].key = cache[e].key => d = e

ThreadTypeOK ==
    /\ pc \in [Threads -> Steps]
    /\ key \in [Threads -> Keys]
    /\ fd \in [Threads -> 0 .. Len(inodes)]
    /\ body \in [Threads -> Contents]
    /\ hit \in [Threads -> BOOLEAN] /\ disturbed \in [Threads -> BOOLEAN]

(* Every variable keeps to its type, and the cache holds one entry for a   *)
(* key and no more entries than its capacity.                              *)
TypeOK == DiskTypeOK /\ CacheTypeOK /\ ThreadTypeOK /\ floor \in [Keys -> 0 .. version]

(* A body read from the disk while nobody wrote the file is one version of *)
(* it, whole.                                                              *)
ReadsWhole ==
    \A t \in Threads:
        pc[t] = "done" /\ ~hit[t] /\ ~disturbed[t] => \E v \in 1 .. version: body[t] = Whole(v)

(* A file may be served stale, but not for ever: after a moment at which a *)
(* path was neither cached nor being served, nobody gets an older version  *)
(* for it than its file had then, through any number of threads, rewrites  *)
(* and evictions.                                                          *)
StaysFresh ==
    /\ \A t \in Threads: pc[t] = "done" => ~Old(body[t], floor[key[t]])
    /\ \A e \in DOMAIN cache: ~Old(cache[e].body, floor[cache[e].key])
=============================================================================
