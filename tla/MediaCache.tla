------------------------------ MODULE MediaCache ------------------------------
(***************************************************************************)
(* Image transforms on the fly: a request selects a variant of the image,  *)
(* waits for a place, reads the source, looks for the rendered derivative  *)
(* in the cache, renders it otherwise and caches it.  Next to it the image *)
(* is edited in place and rehashed.                                        *)
(*                                                                         *)
(* One image with its compressed child, which stays as it is (the worker   *)
(* that makes it anew is part of other modules); of the transform only the *)
(* width is kept.  The derivative of a version of the bytes is that        *)
(* version.                                                                *)
(***************************************************************************)
EXTENDS Integers, Sequences, FiniteSets

CONSTANTS Original, Compressed, Version, Request, MaxAsks, MaxEdits, MaxBytes, MaxOutputBytes,
          Inode, Worlds, None

Image == {Original, Compressed}
Width == {"small", "large", "huge"}

Mode == {"edits",   \* the original is edited in place
         "revert",  \* ... to bytes it had before
         "overlap", \* requests run next to each other
         "twice",   \* ... and may write one derivative at once
         "crash",   \* a request dies with its process, once
         "faults"}  \* storage fails

Ask == [variant : {"default", "original"}, preset : BOOLEAN, width : Width \cup {None}]

World == [tier : {"none", "memory", "disk", "s3"}, ttl : BOOLEAN, limit : 1 .. 3,
          escalate : BOOLEAN, stored : SUBSET Image, asks : SUBSET Ask,
          size : [Version -> Nat], length : [Version -> Nat], clients : SUBSET Request,
          mode : SUBSET Mode]

ASSUME WorldsTyped == Worlds \subseteq World
ASSUME BoundsTyped == MaxAsks \in Nat /\ MaxEdits \in Nat /\ MaxBytes \in Nat

VARIABLES
  bytes,    \* what storage holds of each image
  row,      \* its file_objects row: hash and size
  edit,     \* versions still to be written, and how far the editor is
  rehash,   \* the bytes a rehash has read
  memory,   \* entries of the memory cache, the most recently used first
  size,     \* its size counter
  name,     \* names in the directory of the disk cache, and their inodes
  inode,    \* what the inodes hold
  recency,  \* keys by the time of their last use, the latest first
  sweep,    \* what the sweeper has still to look at
  bucket,   \* derivatives in the cache bucket
  request,
  asked,    \* how many requests there have been
  died,
  world

source == <<bytes, row, edit, rehash>>
disk   == <<name, inode, recency, sweep>>
vars   == <<source, memory, size, disk, bucket, request, asked, died, world>>

Is(mode) == mode \in world.mode

\* CacheKey: the source's id, hash and size, and the parameters.
Key == Image \X Version \X Nat \X Width

Entry == [key : Key, of : Version]
Name  == {"file", "tmp"} \X Key

RequestRow == [pc : {"idle", "wait", "fetch", "lookup", "render", "put", "write", "rename"},
               img : Image, hash : Version, size : Nat, width : Width, tried : BOOLEAN,
               got : Version \cup {None}, node : {None} \cup Inode,
               answer : {"none", "bytes", "part", "redirect", "failed"}]

Swept == [on |-> FALSE, todo |-> <<>>, total |-> 0]

Blank == CHOOSE v \in Version : TRUE
Idle == [pc |-> "idle", img |-> Original, hash |-> Blank, size |-> 0,
         width |-> "small", tried |-> FALSE, got |-> None, node |-> None, answer |-> "none"]

Init ==
  /\ world \in Worlds
  /\ \E v \in Version :
       /\ bytes = [i \in Image |-> v]
       /\ row = [i \in Image |-> [hash |-> v, size |-> world.size[v]]]
       /\ edit = [left |-> IF Is("edits") THEN Version \ {v} ELSE {}, count |-> 0, pc |-> "idle",
                  flagged |-> FALSE]
  /\ rehash = None
  /\ memory = <<>> /\ size = 0
  /\ name = [n \in {} |-> None]
  /\ inode = [n \in Inode |-> [of |-> None, whole |-> TRUE]]
  /\ recency = <<>> /\ sweep = Swept
  /\ bucket = {}
  /\ request = [r \in Request |-> Idle]
  /\ asked = 0 /\ died = FALSE

-----------------------------------------------------------------------------
(* Editing. *)

\* PATCH and PUT of the content: the bytes first ...
EditBytes ==
  /\ edit.pc = "idle" /\ edit.left # {} /\ edit.count < MaxEdits
  /\ \E v \in edit.left :
       /\ bytes' = [bytes EXCEPT ![Original] = v]
       /\ edit' = [edit EXCEPT !.pc = "row", !.count = @ + 1,
                     !.left = IF Is("revert") THEN Version \ {v} ELSE @ \ {v}]
  /\ UNCHANGED <<row, rehash, memory, size, disk, bucket, request, asked, died, world>>

\* ... then size and flag of the row.
EditRow ==
  /\ edit.pc = "row"
  /\ row' = [row EXCEPT ![Original].size = world.size[bytes[Original]]]
  /\ edit' = [edit EXCEPT !.pc = "idle", !.flagged = TRUE]
  /\ UNCHANGED <<bytes, rehash, memory, size, disk, bucket, request, asked, died, world>>

\* rehashObject reads the bytes, and writes their hash later on.
RehashRead ==
  /\ edit.flagged /\ rehash = None
  /\ rehash' = bytes[Original]
  /\ UNCHANGED <<bytes, row, edit, memory, size, disk, bucket, request, asked, died, world>>

RehashWrite ==
  /\ rehash # None
  /\ row' = [row EXCEPT ![Original].hash = rehash]
  /\ edit' = [edit EXCEPT !.flagged = FALSE]
  /\ rehash' = None
  /\ UNCHANGED <<bytes, memory, size, disk, bucket, request, asked, died, world>>

-----------------------------------------------------------------------------
(* A request, up to the cache. *)

Set(r, new) == request' = [request EXCEPT ![r] = new]

\* The answer of the last request stays with it, for the properties.
Answer(r, answer) == Set(r, [Idle EXCEPT !.answer = answer])
Fail(r) == Answer(r, "failed")

Rank(width) == CASE width = "small" -> 1 [] width = "large" -> 2 [] width = "huge" -> 3

\* ParseParams: a query's own width wins over the preset's, the compressed
\* child is as wide as a small derivative, and a huge one exceeds MaxWidth.
ParseParams(ask) ==
  IF ask.width # None THEN ask.width ELSE IF ask.preset THEN "large" ELSE "small"

\* openFile: the compressed child, if its bytes are there, and no original
\* is asked for.
openFile(r, ask) ==
  LET img == IF ask.variant = "default" /\ Compressed \in world.stored
             THEN Compressed ELSE Original
  IN  /\ request[r].pc = "idle"
      /\ asked < MaxAsks
      /\ Is("overlap") \/ \A q \in Request : request[q].pc = "idle"
      /\ asked' = asked + 1
      /\ Set(r, IF ParseParams(ask) = "huge" THEN [Idle EXCEPT !.answer = "failed"]
                ELSE [Idle EXCEPT !.pc = "wait", !.img = img, !.hash = row[img].hash,
                        !.size = row[img].size, !.width = ParseParams(ask)])
      /\ UNCHANGED <<source, memory, size, disk, bucket, died, world>>

Rendering == {r \in Request : request[r].pc \notin {"idle", "wait"}}

\* A place in the semaphore; with a limit of one there is none.
Acquire(r) ==
  /\ request[r].pc = "wait"
  /\ world.limit > 1 => Cardinality(Rendering) < world.limit
  /\ Set(r, [request[r] EXCEPT !.pc = "fetch"])
  /\ UNCHANGED <<source, memory, size, disk, bucket, asked, died, world>>

\* The client goes away while it waits.
Cancel(r) ==
  /\ request[r].pc = "wait" /\ Is("faults")
  /\ Fail(r)
  /\ UNCHANGED <<source, memory, size, disk, bucket, asked, died, world>>

\* Mutant: a missing source is tried again and again, the place kept.
FetchRetried(r) ==
  /\ request[r].pc = "fetch" /\ request[r].img \in world.stored
  /\ Set(r, [request[r] EXCEPT !.pc = "lookup", !.got = bytes[request[r].img]])
  /\ UNCHANGED <<source, memory, size, disk, bucket, asked, died, world>>

\* Render reads the source; where a small child cannot give a large
\* derivative, its original takes its place, once.
Fetch(r) ==
  /\ request[r].pc = "fetch"
  /\ LET q == request[r]
     IN  IF q.img \notin world.stored THEN Fail(r)
         ELSE IF q.img = Compressed /\ Rank(q.width) > 1 /\ world.escalate /\ ~q.tried
         THEN Set(r, [q EXCEPT !.img = Original, !.hash = row[Original].hash,
                               !.size = row[Original].size, !.tried = TRUE])
         ELSE Set(r, [q EXCEPT !.pc = "lookup", !.got = bytes[q.img]])
  /\ UNCHANGED <<source, memory, size, disk, bucket, asked, died, world>>

\* Mutant: the hash is left out.
CacheKeyUnhashed(q) == <<q.img, Blank, q.size, q.width>>

CacheKey(q) == <<q.img, q.hash, q.size, q.width>>

KeyOf(r) == CacheKey(request[r])

Render(r) ==
  /\ request[r].pc = "render"
  /\ IF world.length[request[r].got] > MaxOutputBytes THEN Fail(r)
     ELSE Set(r, [request[r] EXCEPT !.pc = "put"])
  /\ UNCHANGED <<source, memory, size, disk, bucket, asked, died, world>>

Miss(r) == Set(r, [request[r] EXCEPT !.pc = "render"])

NoCache(r) ==
  /\ world.tier = "none"
  /\ \/ request[r].pc = "lookup" /\ Miss(r)
     \/ request[r].pc = "put" /\ Answer(r, "bytes")
  /\ UNCHANGED <<source, memory, size, disk, bucket, asked, died, world>>

-----------------------------------------------------------------------------
(* The memory cache; each operation holds its mutex. *)

At(k) == {i \in DOMAIN memory : memory[i].key = k}

Length(e) == world.length[e.of]
Lengths(entries) == [i \in DOMAIN entries |-> Length(entries[i])]

Without(seq, i) == SubSeq(seq, 1, i - 1) \o SubSeq(seq, i + 1, Len(seq))

\* An entry that was idle for longer than the TTL is dropped.
MemoryGet(r) ==
  /\ world.tier = "memory" /\ request[r].pc = "lookup"
  /\ IF At(KeyOf(r)) = {}
     THEN Miss(r) /\ UNCHANGED <<memory, size>>
     ELSE \E i \in At(KeyOf(r)) :
            \/ /\ memory' = <<memory[i]>> \o Without(memory, i)
               /\ Answer(r, "bytes")
               /\ UNCHANGED size
            \/ /\ world.ttl
               /\ memory' = Without(memory, i)
               /\ size' = size - Length(memory[i])
               /\ Miss(r)
  /\ UNCHANGED <<source, disk, bucket, asked, died, world>>

Total(seq) ==
  LET sum[n \in 0 .. Len(seq)] == IF n = 0 THEN 0 ELSE sum[n - 1] + seq[n]
  IN  sum[Len(seq)]

\* Entries are removed from the back, one by one, as long as the counter,
\* sum at first, exceeds the budget and there are any.
Evict(new, sum) ==
  LET left(n) == sum - Total(Lengths(SubSeq(new, n + 1, Len(new))))
      keep == CHOOSE n \in 0 .. Len(new) :
                /\ n = 0 \/ left(n) <= MaxBytes
                /\ \A m \in n + 1 .. Len(new) : left(m) > MaxBytes
  IN  /\ memory' = SubSeq(new, 1, keep)
      /\ size' = left(keep)

\* Mutant: a replaced entry is counted twice.
PutMemoryTwice(e) ==
  IF At(e.key) = {} THEN Evict(<<e>> \o memory, size + Length(e))
  ELSE \E i \in At(e.key) : Evict(<<e>> \o Without(memory, i), size + Length(e))

\* The entry is new at the front, or replaced and moved there.
PutMemory(e) ==
  IF At(e.key) = {} THEN Evict(<<e>> \o memory, size + Length(e))
  ELSE \E i \in At(e.key) :
         Evict(<<e>> \o Without(memory, i), size - Length(memory[i]) + Length(e))

MemoryPut(r) ==
  /\ world.tier = "memory" /\ request[r].pc = "put"
  /\ LET e == [key |-> KeyOf(r), of |-> request[r].got]
     IN  IF Length(e) > MaxBytes THEN UNCHANGED <<memory, size>> ELSE PutMemory(e)
  /\ Answer(r, "bytes")
  /\ UNCHANGED <<source, disk, bucket, asked, died, world>>

-----------------------------------------------------------------------------
(* The disk cache: files that are written under a temporary name. *)

File(k) == <<"file", k>>
Tmp(k)  == <<"tmp", k>>

\* What is left of the keys by recency without n.
Forget(n) ==
  IF \E i \in DOMAIN recency : recency[i] = n
  THEN Without(recency, CHOOSE i \in DOMAIN recency : recency[i] = n) ELSE recency

Touch(n) == recency' = <<n>> \o Forget(n)

Unlink(names) == name' = [n \in DOMAIN name \ names |-> name[n]]

Weight(n) == IF inode[name[n]].of = None THEN 0 ELSE world.length[inode[name[n]].of]

\* A file is read as it is now; one that exceeds the budget is not served.
DiskGet(r) ==
  /\ world.tier = "disk" /\ request[r].pc = "lookup"
  /\ LET n == File(KeyOf(r))
     IN  IF n \notin DOMAIN name \/ (n \in DOMAIN name /\ Weight(n) > MaxBytes)
         THEN Miss(r) /\ UNCHANGED recency
         ELSE /\ Answer(r, IF inode[name[n]].whole THEN "bytes" ELSE "part")
              /\ Touch(n)
  /\ UNCHANGED <<source, memory, size, name, inode, sweep, bucket, asked, died, world>>

InUse == {name[n] : n \in DOMAIN name} \cup {request[r].node : r \in Request}

\* The temporary name is that of the key, whoever writes.
Writing(k) == {r \in Request : request[r].pc \in {"write", "rename"} /\ KeyOf(r) = k}

\* Mutant: the file is written under its own name.
DiskOpenInPlace(r) ==
  /\ world.tier = "disk" /\ request[r].pc = "put"
  /\ Is("twice") \/ Writing(KeyOf(r)) = {}
  /\ LET t    == File(KeyOf(r))
         node == IF t \in DOMAIN name THEN name[t]
                 ELSE CHOOSE i \in Inode \ InUse : TRUE
     IN  /\ t \in DOMAIN name \/ Inode \ InUse # {}
         /\ name' = [n \in DOMAIN name \cup {t} |-> IF n = t THEN node ELSE name[n]]
         /\ inode' = [inode EXCEPT ![node] = [of |-> request[r].got, whole |-> FALSE]]
         /\ Touch(t)
         /\ Set(r, [request[r] EXCEPT !.pc = "write", !.node = node])
  /\ UNCHANGED <<source, memory, size, sweep, bucket, asked, died, world>>

\* WriteFile opens the temporary name, truncates what is there ...
DiskOpen(r) ==
  /\ world.tier = "disk" /\ request[r].pc = "put"
  /\ Is("twice") \/ Writing(KeyOf(r)) = {}
  /\ LET t    == Tmp(KeyOf(r))
         node == IF t \in DOMAIN name THEN name[t]
                 ELSE CHOOSE i \in Inode \ InUse : TRUE
     IN  /\ t \in DOMAIN name \/ Inode \ InUse # {}
         /\ name' = [n \in DOMAIN name \cup {t} |-> IF n = t THEN node ELSE name[n]]
         /\ inode' = [inode EXCEPT ![node] = [of |-> request[r].got, whole |-> FALSE]]
         /\ Touch(t)
         /\ Set(r, [request[r] EXCEPT !.pc = "write", !.node = node])
  /\ UNCHANGED <<source, memory, size, sweep, bucket, asked, died, world>>

\* ... and writes.
DiskWrite(r) ==
  /\ request[r].pc = "write"
  /\ inode' = [inode EXCEPT ![request[r].node] = [of |-> request[r].got, whole |-> TRUE]]
  /\ Set(r, [request[r] EXCEPT !.pc = "rename", !.node = None])
  /\ UNCHANGED <<source, memory, size, name, recency, sweep, bucket, asked, died, world>>

\* If the temporary name is gone, Put fails, and the answer is given still.
DiskRename(r) ==
  /\ request[r].pc = "rename"
  /\ LET f == File(KeyOf(r))
         t == Tmp(KeyOf(r))
     IN  IF t \in DOMAIN name
         THEN /\ name' = [n \in (DOMAIN name \ {t}) \cup {f} |->
                            IF n = f THEN name[t] ELSE name[n]]
              /\ recency' = [i \in DOMAIN Forget(f) |->
                               IF Forget(f)[i] = t THEN f ELSE Forget(f)[i]]
         ELSE UNCHANGED <<name, recency>>
  /\ Answer(r, "bytes")
  /\ UNCHANGED <<source, memory, size, inode, sweep, bucket, asked, died, world>>

Weights(names) == [i \in DOMAIN names |-> Weight(names[i])]

\* Mutant: the walk skips temporary names.
SweepWalkFiles ==
  /\ world.tier = "disk" /\ ~sweep.on
  /\ LET kept == SelectSeq(recency, LAMBDA n : n[1] = "file")
     IN  /\ Total(Weights(kept)) > MaxBytes
         /\ sweep' = [on |-> TRUE, total |-> Total(Weights(kept)),
                      todo |-> [i \in DOMAIN kept |-> [name |-> kept[i], length |-> Weight(kept[i])]]]
  /\ UNCHANGED <<source, memory, size, name, inode, recency, bucket, request, asked, died, world>>

\* sweepOnce walks the directory, temporary names included, and notes their
\* lengths; what was idle for too long goes at once ...
SweepWalk ==
  /\ world.tier = "disk" /\ ~sweep.on /\ recency # <<>>
  /\ \E k \in 0 .. Len(recency) :
       /\ ~world.ttl => k = Len(recency)
       /\ LET kept == SubSeq(recency, 1, k)
              all  == Total(Weights(kept))
          IN  /\ Unlink({recency[i] : i \in k + 1 .. Len(recency)})
              /\ recency' = kept
              /\ sweep' = IF all <= MaxBytes THEN Swept
                          ELSE [on |-> TRUE, total |-> all,
                                todo |-> [i \in DOMAIN kept |->
                                            [name |-> kept[i], length |-> Weight(kept[i])]]]
  /\ UNCHANGED <<source, memory, size, inode, bucket, request, asked, died, world>>

\* ... and the oldest of the rest until it fits.
SweepEvict ==
  /\ sweep.on
  /\ LET e    == sweep.todo[Len(sweep.todo)]
         left == IF e.name \in DOMAIN name THEN sweep.total - e.length ELSE sweep.total
     IN  /\ Unlink({e.name})
         /\ recency' = Forget(e.name)
         /\ sweep' = IF left > MaxBytes /\ Len(sweep.todo) > 1
                     THEN [sweep EXCEPT !.todo = SubSeq(@, 1, Len(@) - 1), !.total = left]
                     ELSE Swept
  /\ UNCHANGED <<source, memory, size, inode, bucket, request, asked, died, world>>

-----------------------------------------------------------------------------
(* The cache bucket: the client is sent to it. *)

InBucket(k) == \E e \in bucket : e.key = k

BucketGet(r) ==
  /\ world.tier = "s3" /\ request[r].pc = "lookup"
  /\ IF InBucket(KeyOf(r))
     THEN Answer(r, "redirect")
     ELSE Miss(r)
  /\ UNCHANGED <<source, memory, size, disk, bucket, asked, died, world>>

\* A put that fails is not an error of the request.
BucketPut(r) ==
  /\ world.tier = "s3" /\ request[r].pc = "put"
  /\ \/ bucket' = {e \in bucket : e.key # KeyOf(r)}
                    \cup {[key |-> KeyOf(r), of |-> request[r].got]}
     \/ Is("faults") /\ UNCHANGED bucket
  /\ Answer(r, "redirect")
  /\ UNCHANGED <<source, memory, size, disk, asked, died, world>>

-----------------------------------------------------------------------------
\* A restart: the memory cache is empty, files and names stay.
Die(r) ==
  /\ Is("crash") /\ ~died /\ request[r].pc # "idle"
  /\ died' = TRUE
  /\ request' = [q \in Request |-> Idle]
  /\ memory' = <<>> /\ size' = 0
  /\ sweep' = Swept
  /\ UNCHANGED <<source, name, inode, recency, bucket, asked, world>>

Work(r) ==
  \/ Fetch(r) \/ Render(r) \/ NoCache(r) \/ MemoryGet(r) \/ MemoryPut(r)
  \/ DiskGet(r) \/ DiskOpen(r) \/ DiskWrite(r) \/ DiskRename(r) \/ BucketGet(r) \/ BucketPut(r)

Next ==
  \/ EditBytes \/ EditRow \/ RehashRead \/ RehashWrite
  \/ \E r \in world.clients :
       (\E ask \in world.asks : openFile(r, ask)) \/ Acquire(r) \/ Cancel(r) \/ Work(r) \/ Die(r)
  \/ SweepWalk \/ SweepEvict

Spec == Init /\ [][Next]_vars

FairSpec ==
  /\ Spec
  /\ \A r \in Request : WF_vars(Work(r)) /\ SF_vars(Acquire(r))
  /\ WF_vars(SweepWalk) /\ WF_vars(SweepEvict)

-----------------------------------------------------------------------------
Working == {r \in Request : request[r].pc \in {"lookup", "render", "put", "write", "rename"}}

TypeOK ==
  /\ world \in Worlds
  /\ bytes \in [Image -> Version]
  /\ row \in [Image -> [hash : Version, size : Nat]]
  /\ edit \in [left : SUBSET Version, count : 0 .. MaxEdits, pc : {"idle", "row"}, flagged : BOOLEAN]
  /\ rehash \in Version \cup {None}
  /\ memory \in Seq(Entry)
  /\ size \in Nat
  /\ DOMAIN name \subseteq Name /\ \A n \in DOMAIN name : name[n] \in Inode
  /\ inode \in [Inode -> [of : Version \cup {None}, whole : BOOLEAN]]
  /\ recency \in Seq(Name) /\ {recency[i] : i \in DOMAIN recency} = DOMAIN name
  /\ sweep \in [on : BOOLEAN, todo : Seq([name : Name, length : Nat]), total : Int]
  /\ sweep.on => sweep.todo # <<>>
  /\ bucket \subseteq Entry
  /\ request \in [Request -> RequestRow]
  /\ \A r \in Working : request[r].got \in Version
  /\ \A r \in Request : request[r].pc = "write" => request[r].node \in Inode
  /\ asked \in 0 .. MaxAsks

\* The size of the memory cache is that of its entries, one for each key,
\* and within the budget, whatever was replaced, evicted or had expired.
BudgetKept ==
  /\ size = Total(Lengths(memory)) /\ size <= MaxBytes
  /\ \A i, j \in DOMAIN memory : memory[i].key = memory[j].key => i = j

\* "bounded concurrency": no more requests render at once than configured,
\* if the limit is more than one (media/service.go:84-92).
Bounded ==
  /\ IsFiniteSet(Rendering)
  /\ world.limit > 1 => Cardinality(Rendering) <= world.limit

\* The names of the directory are those by recency, each with a file of its
\* own; a file that is being written has at most the names of its key.
NamesApart ==
  /\ \A i, j \in DOMAIN recency : recency[i] = recency[j] => i = j
  /\ \A m, n \in DOMAIN name : name[m] = name[n] => m = n
  /\ \A r \in Request, n \in DOMAIN name :
       request[r].pc = "write" /\ name[n] = request[r].node => n[2] = KeyOf(r)

\* Where no two requests write one derivative at once: what has its final name
\* is whole, and so is what is about to get it.
WholeWhenNamed ==
  Is("twice") \/
    /\ \A r \in Request : request[r].pc \in {"write", "rename"} => Writing(KeyOf(r)) = {r}
    /\ \A n \in DOMAIN name : n[1] = "file" => inode[name[n]].whole
    /\ \A r \in Request :
         Tmp(KeyOf(r)) \in DOMAIN name =>
           /\ request[r].pc = "write" => name[Tmp(KeyOf(r))] = request[r].node
           /\ request[r].pc = "rename" => inode[name[Tmp(KeyOf(r))]].whole

\* "atomic within the same filesystem" (media/cache.go:155): nobody is
\* served a part of a derivative, while another request writes it or after a
\* crash in the write, as long as two requests do not write it at once.
NoPartServed ==
  Is("twice") \/ \A r \in Request : request[r].answer # "part"

\* The keys in the caches, and of the requests.
KeysUsed ==
  {memory[i].key : i \in DOMAIN memory} \cup {e.key : e \in bucket} \cup {n[2] : n \in DOMAIN name}
    \cup {KeyOf(r) : r \in {q \in Request : request[q].pc # "idle"}}

\* What has not been written yet has no hash anywhere.
HashesPast ==
  Is("revert") \/
    /\ bytes[Original] \notin edit.left
    /\ row[Original].hash \notin edit.left
    /\ rehash # None => rehash \notin edit.left
    /\ \A k \in KeysUsed : k[1] = Original => k[2] \notin edit.left

\* The key has the hash of what the original is now.
OfNow(k) == k[1] = Original /\ k[2] = bytes[Original]

\* Whatever is cached under a key with the hash of the bytes as they are now
\* is a derivative of these bytes, although a request takes the hash from the
\* row, the bytes later from storage, and an edit and a late rehash may come
\* in between; unless the image was edited back to what it had been before.
DerivativesMatch ==
  Is("revert") \/
    /\ \A i \in DOMAIN memory : OfNow(memory[i].key) => memory[i].of = bytes[Original]
    /\ \A e \in bucket : OfNow(e.key) => e.of = bytes[Original]
    /\ \A n \in DOMAIN name : OfNow(n[2]) => inode[name[n]].of = bytes[Original]

\* The same of what requests have read, and will cache.
ReadsMatch ==
  Is("revert") \/ \A r \in Working : OfNow(KeyOf(r)) => request[r].got = bytes[Original]

\* The inductive invariant.
IInv ==
  /\ TypeOK /\ BudgetKept /\ Bounded
  /\ NamesApart /\ WholeWhenNamed /\ NoPartServed
  /\ HashesPast /\ DerivativesMatch /\ ReadsMatch

\* A directory that outgrew the budget is brought back into it, also by what
\* a dead process left under a temporary name.
DiskFits == Total(Weights(recency)) > MaxBytes ~> Total(Weights(recency)) <= MaxBytes

\* Every request is answered: no place is lost, on any way through.
RequestsEnd == \A r \in Request : request[r].pc # "idle" ~> request[r].pc = "idle"
=============================================================================
