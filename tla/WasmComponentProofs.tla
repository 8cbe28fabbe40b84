------------------------ MODULE WasmComponentProofs ------------------------
(***************************************************************************)
(* Proofs about WasmComponent for any number of backends and users, any    *)
(* packages, releases and options.                                         *)
(***************************************************************************)
EXTENDS WasmComponent, TLAPS

Named(r, p) == [release |-> r, checksum |-> p] \in named

\* What is in the directory comes from those who checked it first.
FilesNamed ==
  \A k \in DOMAIN files : \A i \in DOMAIN files[k] :
    files[k][i] # None => Named(k[2], files[k][i])

\* A call of `new`, and the instance it makes.
CallInv(b) ==
  /\ pc[b] # "idle" => opts[b] \in named
  /\ pc[b] = "local" => opts[b].release \in Local
  /\ pc[b] \in {"create", "write", "load"} => bytes[b] # None
  /\ bytes[b] # None =>
       pc[b] \in {"create", "write", "load", "discard"} /\ bytes[b] = opts[b].checksum
  /\ loaded[b] # None => pc[b] # "idle"
  /\ loaded[b] # None /\ opts[b].release \notin Local => Named(opts[b].release, loaded[b])

\* A backend that nobody disturbs finds in its file what it wrote.
FileInv(b) ==
  /\ pc[b] = "create" => at[b] = 0
  /\ fd[b] => pc[b] = "write" /\ Present(KeyOf(b))
  /\ pc[b] = "write" => at[b] < Size[bytes[b]]
  /\ pc[b] = "write" /\ alone[b] =>
       fd[b] /\ files[KeyOf(b)] = [i \in 1..at[b] |-> bytes[b]]
  /\ pc[b] = "load" /\ alone[b] => Present(KeyOf(b)) /\ files[KeyOf(b)] = Content(bytes[b])
  /\ pc[b] = "discard" /\ opts[b].checksum \in Components => ~alone[b]

DirectoryInv ==
  /\ TypeOK /\ server \in named /\ FilesNamed
  /\ \A b \in Backends : CallInv(b) /\ FileInv(b)

Labels == {"idle", "local", "lookup", "cached", "evict", "download", "create", "write", "load",
           "discard", "instantiate", "ready"}

\* The parts of TypeOK: the remote side, the directory, the calls.
RemoteOK ==
  /\ server \in Servers /\ named \subseteq Servers
  /\ served \in [Releases -> Packages]
DirOK ==
  /\ DOMAIN files \subseteq Keys /\ \A k \in DOMAIN files : files[k] \in Seq(Blocks)
  /\ fd \in [Backends -> BOOLEAN]
  /\ alone \in [Backends -> BOOLEAN]
CallsOK ==
  /\ pc \in [Backends -> Labels]
  /\ opts \in [Backends -> Servers \cup {None}]
  /\ bytes \in [Backends -> Blocks]
  /\ at \in [Backends -> Nat] /\ \A b \in Backends : at[b] > 0 => bytes[b] # None
  /\ loaded \in [Backends -> Blocks]

LEMMA Parts == TypeOK <=> RemoteOK /\ DirOK /\ CallsOK
BY DEF TypeOK, RemoteOK, DirOK, CallsOK, Labels

-----------------------------------------------------------------------------
(* What a write leaves in a file. *)

LEMMA PutInSeq ==
  ASSUME NEW c \in Seq(Blocks), NEW i \in Nat \ {0}, NEW p \in Blocks
  PROVE  /\ PutAt(c, i, p) \in Seq(Blocks)
         /\ \A j \in DOMAIN PutAt(c, i, p) :
              PutAt(c, i, p)[j] \in {p, None} \/ (j \in DOMAIN c /\ PutAt(c, i, p)[j] = c[j])
<1> DEFINE n == IF i > Len(c) THEN i ELSE Len(c)
           f == [j \in 1..n |-> IF j = i THEN p ELSE IF j <= Len(c) THEN c[j] ELSE None]
<1>1. Len(c) \in Nat /\ n \in Nat /\ c \in [1..Len(c) -> Blocks]  OBVIOUS
<1>2. None \in Blocks  BY DEF Blocks
<1>3. f \in [1..n -> Blocks]
  <2>1. ASSUME NEW j \in 1..n, j <= Len(c)  PROVE j \in 1..Len(c)  BY <1>1, <2>1
  <2> QED  BY <1>1, <1>2, <2>1
<1>4. f \in Seq(Blocks)  BY <1>1, <1>3
<1>5. \A j \in DOMAIN f : f[j] \in {p, None} \/ (j \in DOMAIN c /\ f[j] = c[j])
  <2> SUFFICES ASSUME NEW j \in 1..n  PROVE f[j] \in {p, None} \/ (j \in DOMAIN c /\ f[j] = c[j])
    OBVIOUS
  <2>1. CASE j = i  BY <2>1
  <2>2. CASE j # i /\ j <= Len(c)
    <3>1. j \in 1..Len(c)  BY <2>2, <1>1
    <3> QED  BY <3>1, <2>2, <1>1
  <2>3. CASE j # i /\ ~(j <= Len(c))  BY <2>3
  <2> QED  BY <2>1, <2>2, <2>3
<1> QED  BY <1>4, <1>5 DEF PutAt

\* A writer alone extends what it wrote by one block.
LEMMA PutNext ==
  ASSUME NEW n \in Nat, NEW p \in Blocks
  PROVE  PutAt([j \in 1..n |-> p], n + 1, p) = [j \in 1..(n + 1) |-> p]
<1> DEFINE c == [j \in 1..n |-> p]
<1>1. Len(c) = n  OBVIOUS
<1>2. \A j \in 1..(n + 1) : j # n + 1 => j <= n /\ j \in 1..n  OBVIOUS
<1>3. \A j \in 1..(n + 1) :
        (IF j = n + 1 THEN p ELSE IF j <= Len(c) THEN c[j] ELSE None) = p
  BY <1>1, <1>2
<1>4. (IF n + 1 > Len(c) THEN n + 1 ELSE Len(c)) = n + 1  BY <1>1
<1> QED  BY <1>3, <1>4 DEF PutAt

LEMMA LoadsWhole ==
  ASSUME ComponentAssumption, NEW k, NEW p \in Packages, Loads(k, p)
  PROVE  \E i \in DOMAIN files[k] : files[k][i] = p
<1>1. Size[p] \in Nat \ {0}  BY DEF ComponentAssumption
<1>2. 1 \in 1..Size[p]  BY <1>1
<1> QED  BY <1>2 DEF Loads, Content

LEMMA InitInv == Init => DirectoryInv
<1> SUFFICES ASSUME Init  PROVE DirectoryInv  OBVIOUS
<1> USE ComponentAssumption
<1>1. DOMAIN files = {}  BY DEF Init
<1>2. TypeOK /\ server \in named  BY <1>1 DEF Init, TypeOK, Blocks
<1>3. FilesNamed  BY <1>1 DEF FilesNamed
<1>4. \A b \in Backends : CallInv(b)  BY DEF Init, CallInv
<1>5. \A b \in Backends : FileInv(b)  BY DEF Init, FileInv
<1> QED  BY <1>2, <1>3, <1>4, <1>5 DEF DirectoryInv

-----------------------------------------------------------------------------
(* A step of one backend, seen by the others. *)

Untouched(c) ==
  /\ pc'[c] = pc[c] /\ opts'[c] = opts[c] /\ bytes'[c] = bytes[c]
  /\ at'[c] = at[c] /\ loaded'[c] = loaded[c]

\* The file of b changed, if any did, and b lets go of the files it removes.
Elsewhere(b) ==
  \A c \in Backends \ {b} :
    \/ alone'[c] = alone[c] /\ fd'[c] = fd[c] /\ (Present(KeyOf(c)) <=> Present(KeyOf(c))')
         /\ (Present(KeyOf(c)) => files'[KeyOf(c)] = files[KeyOf(c)])
    \/ pc[c] = "idle" /\ ~fd'[c]
    \/ ~alone'[c] /\ (fd'[c] => fd[c] /\ Present(KeyOf(c))')

LEMMA OthersKept ==
  ASSUME DirectoryInv, NEW b \in Backends, UNCHANGED remote, Elsewhere(b),
         \A c \in Backends \ {b} : Untouched(c)
  PROVE  \A c \in Backends \ {b} : CallInv(c)' /\ FileInv(c)'
<1> SUFFICES ASSUME NEW c \in Backends \ {b}  PROVE CallInv(c)' /\ FileInv(c)'  OBVIOUS
<1>1. CallInv(c) /\ FileInv(c)  BY DEF DirectoryInv
<1>2. Untouched(c)  OBVIOUS
<1>3. CallInv(c)'  BY <1>1, <1>2 DEF CallInv, Untouched, Named, remote
<1>4. KeyOf(c)' = KeyOf(c)  BY <1>2 DEF KeyOf, Untouched
<1>5. FileInv(c)'
  <2>1. CASE alone'[c] = alone[c] /\ fd'[c] = fd[c] /\ (Present(KeyOf(c)) <=> Present(KeyOf(c))')
               /\ (Present(KeyOf(c)) => files'[KeyOf(c)] = files[KeyOf(c)])
    BY <1>1, <1>2, <1>4, <2>1 DEF FileInv, Untouched
  <2>2. CASE pc[c] = "idle" /\ ~fd'[c]  BY <1>1, <1>2, <2>2 DEF FileInv, Untouched
  <2>3. CASE ~alone'[c] /\ (fd'[c] => fd[c] /\ Present(KeyOf(c))')
    BY <1>1, <1>2, <1>4, <2>3 DEF FileInv, Untouched
  <2> QED  BY <2>1, <2>2, <2>3 DEF Elsewhere
<1> QED  BY <1>3, <1>5

\* Nothing in the directory changes.
LEMMA NoFileChanged ==
  ASSUME NEW b \in Backends, \A c \in Backends \ {b} : Untouched(c), UNCHANGED <<files, fd, alone>>
  PROVE  Elsewhere(b)
BY DEF Elsewhere, Untouched, Present, KeyOf

LEMMA DirectoryKept ==
  ASSUME DirectoryInv, UNCHANGED <<remote, files, fd, alone>>
  PROVE  RemoteOK' /\ DirOK' /\ FilesNamed'
<1>1. RemoteOK /\ DirOK /\ FilesNamed  BY Parts DEF DirectoryInv
<1>2. RemoteOK'  BY <1>1 DEF RemoteOK, remote
<1>3. DirOK'  BY <1>1 DEF DirOK
<1>4. FilesNamed'  BY <1>1 DEF FilesNamed, Named, remote
<1> QED  BY <1>2, <1>3, <1>4

LEMMA FileRemoved ==
  ASSUME DirectoryInv, NEW b \in Backends, UNCHANGED remote, RemoveFile(b),
         \A c \in Backends \ {b} : Untouched(c)
  PROVE  RemoteOK' /\ DirOK' /\ FilesNamed' /\ Elsewhere(b) /\ ~fd'[b]
<1>1. RemoteOK /\ DirOK /\ FilesNamed /\ \A c \in Backends : FileInv(c)
  BY Parts DEF DirectoryInv
<1>2. RemoteOK'  BY <1>1 DEF RemoteOK, remote
<1>3. DirOK'  BY <1>1 DEF DirOK, RemoveFile, Disturb
<1>4. FilesNamed'  BY <1>1 DEF FilesNamed, Named, remote, RemoveFile
<1>5. Elsewhere(b)
  <2> SUFFICES ASSUME NEW c \in Backends \ {b}
               PROVE  \/ alone'[c] = alone[c] /\ fd'[c] = fd[c]
                           /\ (Present(KeyOf(c)) <=> Present(KeyOf(c))')
                           /\ (Present(KeyOf(c)) => files'[KeyOf(c)] = files[KeyOf(c)])
                      \/ pc[c] = "idle" /\ ~fd'[c]
                      \/ ~alone'[c] /\ (fd'[c] => fd[c] /\ Present(KeyOf(c))')
    BY DEF Elsewhere
  <2>1. KeyOf(c)' = KeyOf(c)  BY DEF KeyOf, Untouched
  <2>2. /\ alone'[c] = (alone[c] /\ (pc[c] = "idle" \/ KeyOf(c) # KeyOf(b)))
        /\ fd'[c] = (fd[c] /\ KeyOf(c) # KeyOf(b))
    BY DEF RemoveFile, Disturb
  <2>3. CASE KeyOf(c) # KeyOf(b)
    <3>1. alone'[c] = alone[c] /\ fd'[c] = fd[c]  BY <1>1, <2>2, <2>3 DEF DirOK
    <3>2. Present(KeyOf(c)) <=> Present(KeyOf(c))'  BY <2>1, <2>3 DEF RemoveFile, Present
    <3>3. Present(KeyOf(c)) => files'[KeyOf(c)] = files[KeyOf(c)]
      BY <2>3 DEF RemoveFile, Present
    <3> QED  BY <3>1, <3>2, <3>3
  <2>4. CASE KeyOf(c) = KeyOf(b)
    <3>1. ~fd'[c]  BY <2>2, <2>4
    <3>2. pc[c] # "idle" => ~alone'[c]  BY <2>2, <2>4
    <3> QED  BY <3>1, <3>2
  <2> QED  BY <2>3, <2>4
<1>6. ~fd'[b]  BY DEF RemoveFile
<1> QED  BY <1>2, <1>3, <1>4, <1>5, <1>6

\* The file of b holds something else.
LEMMA FileChanged ==
  ASSUME DirectoryInv, NEW b \in Backends, UNCHANGED remote, pc[b] # "idle", opts[b] \in Servers,
         NEW content \in Seq(Blocks),
         \A i \in DOMAIN content : content[i] # None => Named(opts[b].release, content[i]),
         files' = With(KeyOf(b), content), Disturb(b), fd' \in [Backends -> BOOLEAN],
         \A c \in Backends \ {b} : Untouched(c) /\ fd'[c] = fd[c]
  PROVE  RemoteOK' /\ DirOK' /\ FilesNamed' /\ Elsewhere(b)
<1> USE ComponentAssumption
<1>1. RemoteOK /\ DirOK /\ FilesNamed /\ \A c \in Backends : FileInv(c)
  BY Parts DEF DirectoryInv
<1>2. RemoteOK'  BY <1>1 DEF RemoteOK, remote
<1>3. KeyOf(b) \in Keys  BY DEF Keys, KeyOf
<1>4. DirOK'  BY <1>1, <1>3 DEF DirOK, With, Disturb
<1>5. KeyOf(b)[2] = opts[b].release  BY DEF KeyOf
<1>6. FilesNamed'  BY <1>1, <1>5 DEF FilesNamed, Named, remote, With
<1>7. Elsewhere(b)
  <2> SUFFICES ASSUME NEW c \in Backends \ {b}
               PROVE  \/ alone'[c] = alone[c] /\ fd'[c] = fd[c]
                           /\ (Present(KeyOf(c)) <=> Present(KeyOf(c))')
                           /\ (Present(KeyOf(c)) => files'[KeyOf(c)] = files[KeyOf(c)])
                      \/ pc[c] = "idle" /\ ~fd'[c]
                      \/ ~alone'[c] /\ (fd'[c] => fd[c] /\ Present(KeyOf(c))')
    BY DEF Elsewhere
  <2>1. KeyOf(c)' = KeyOf(c)  BY DEF KeyOf, Untouched
  <2>2. alone'[c] = (alone[c] /\ (pc[c] = "idle" \/ KeyOf(c) # KeyOf(b)))  BY DEF Disturb
  <2>3. CASE KeyOf(c) # KeyOf(b)
    <3>1. alone'[c] = alone[c]  BY <1>1, <2>2, <2>3 DEF DirOK
    <3>2. Present(KeyOf(c)) <=> Present(KeyOf(c))'  BY <2>1, <2>3 DEF With, Present
    <3>3. Present(KeyOf(c)) => files'[KeyOf(c)] = files[KeyOf(c)]  BY <2>3 DEF With, Present
    <3> QED  BY <3>1, <3>2, <3>3
  <2>4. CASE KeyOf(c) = KeyOf(b)
    <3>1. Present(KeyOf(c))'  BY <2>1, <2>4 DEF With, Present
    <3>2. pc[c] # "idle" => ~alone'[c]  BY <2>2, <2>4
    <3>3. pc[c] = "idle" => ~fd'[c]  BY <1>1 DEF FileInv
    <3> QED  BY <3>1, <3>2, <3>3
  <2> QED  BY <2>3, <2>4
<1> QED  BY <1>2, <1>4, <1>6, <1>7

-----------------------------------------------------------------------------
(* The calls of a backend. *)

LEMMA Failed ==
  ASSUME DirectoryInv, NEW b \in Backends, Fail(b)
  PROVE  /\ CallsOK' /\ \A c \in Backends \ {b} : Untouched(c)
         /\ CallInv(b)'
         /\ ~fd'[b] => FileInv(b)'
<1>1. CallsOK  BY Parts DEF DirectoryInv
<1>2. CallsOK'  BY <1>1 DEF CallsOK, Labels, Blocks, Fail, GoTo
<1>3. \A c \in Backends \ {b} : Untouched(c)  BY <1>1 DEF CallsOK, Untouched, Fail, GoTo
<1>4. pc'[b] = "idle" /\ bytes'[b] = None /\ loaded'[b] = None
  BY <1>1 DEF CallsOK, Fail, GoTo
<1>5. CallInv(b)'  BY <1>4 DEF CallInv
<1>6. ~fd'[b] => FileInv(b)'  BY <1>4 DEF FileInv
<1> QED  BY <1>2, <1>3, <1>5, <1>6

LEMMA WentOn ==
  ASSUME DirectoryInv, NEW b \in Backends, NEW l \in Labels, GoOn(b, l)
  PROVE  /\ CallsOK' /\ \A c \in Backends \ {b} : Untouched(c)
         /\ pc'[b] = l /\ opts' = opts /\ bytes' = bytes /\ at' = at /\ loaded' = loaded
<1>1. CallsOK  BY Parts DEF DirectoryInv
<1>2. CallsOK'  BY <1>1 DEF CallsOK, GoOn, GoTo
<1> QED  BY <1>1, <1>2 DEF CallsOK, Untouched, GoOn, GoTo

LEMMA Got ==
  ASSUME DirectoryInv, NEW b \in Backends, NEW p \in Packages, Compiled(b, p), pc[b] # "idle",
         opts[b].release \notin Local => Named(opts[b].release, p), UNCHANGED <<remote, fd>>, ~fd[b]
  PROVE  CallsOK' /\ CallInv(b)' /\ FileInv(b)' /\ \A c \in Backends \ {b} : Untouched(c)
<1> USE ComponentAssumption
<1>1. CallsOK /\ CallInv(b)  BY Parts DEF DirectoryInv
<1>2. CallsOK'  BY <1>1 DEF CallsOK, Labels, Blocks, Compiled, GoTo
<1>3. \A c \in Backends \ {b} : Untouched(c)  BY <1>1 DEF CallsOK, Untouched, Compiled, GoTo
<1>4. pc'[b] = "instantiate" /\ bytes'[b] = None /\ loaded'[b] = p /\ opts' = opts
  BY <1>1 DEF CallsOK, Compiled, GoTo
<1>5. CallInv(b)'  BY <1>1, <1>4 DEF CallInv, Named, remote
<1>6. FileInv(b)'  BY <1>4 DEF FileInv
<1> QED  BY <1>2, <1>3, <1>5, <1>6

LEMMA FileIsNamed ==
  ASSUME DirectoryInv, NEW b \in Backends, NEW p \in Components, Loads(KeyOf(b), p)
  PROVE  p \in Packages /\ Named(opts[b].release, p)
<1>1. p \in Packages /\ p # None  BY ComponentAssumption DEF ComponentAssumption
<1>2. PICK i \in DOMAIN files[KeyOf(b)] : files[KeyOf(b)][i] = p
  BY <1>1, LoadsWhole, ComponentAssumption
<1>3. KeyOf(b) \in DOMAIN files  BY DEF Loads, Present
<1>4. KeyOf(b)[2] = opts[b].release  BY DEF KeyOf
<1> QED  BY <1>1, <1>2, <1>3, <1>4 DEF DirectoryInv, FilesNamed

\* What a step has to show.
LEMMA Combine ==
  ASSUME DirectoryInv, NEW b \in Backends, UNCHANGED remote,
         RemoteOK', DirOK', CallsOK', FilesNamed', Elsewhere(b), CallInv(b)', FileInv(b)',
         \A c \in Backends \ {b} : Untouched(c)
  PROVE  DirectoryInv'
<1>1. TypeOK'  BY Parts, PTL
<1>2. \A c \in Backends : CallInv(c)' /\ FileInv(c)'  BY OthersKept
<1>3. (server \in named)'  BY DEF DirectoryInv, remote
<1> QED  BY <1>1, <1>2, <1>3 DEF DirectoryInv

-----------------------------------------------------------------------------
(* The actions. *)

\* Steps that leave the directory alone, by their outcome.
LEMMA FailInv ==
  ASSUME DirectoryInv, NEW b \in Backends, Fail(b), UNCHANGED <<remote, files, fd, alone>>, ~fd[b]
  PROVE  DirectoryInv'
<1>1. /\ CallsOK' /\ \A c \in Backends \ {b} : Untouched(c)
      /\ CallInv(b)' /\ FileInv(b)'
  BY Failed
<1>2. RemoteOK' /\ DirOK' /\ FilesNamed'  BY DirectoryKept
<1>3. Elsewhere(b)  BY <1>1, NoFileChanged
<1> QED  BY <1>1, <1>2, <1>3, Combine

LEMMA GoOnInv ==
  ASSUME DirectoryInv, NEW b \in Backends, NEW l \in Labels, GoOn(b, l), pc[b] # "idle",
         UNCHANGED <<remote, files, fd, alone>>, ~fd[b],
         l \notin {"idle", "local", "create", "write", "load"},
         l = "discard" \/ bytes[b] = None,
         l = "discard" /\ opts[b].checksum \in Components => ~alone[b]
  PROVE  DirectoryInv'
<1>1. /\ CallsOK' /\ \A c \in Backends \ {b} : Untouched(c)
      /\ pc'[b] = l /\ opts' = opts /\ bytes' = bytes /\ at' = at /\ loaded' = loaded
  BY WentOn
<1>2. RemoteOK' /\ DirOK' /\ FilesNamed'  BY DirectoryKept
<1>3. Elsewhere(b)  BY <1>1, NoFileChanged
<1>4. CallInv(b)  BY DEF DirectoryInv
<1>5. CallInv(b)'  BY <1>1, <1>4 DEF CallInv, Named, remote
<1>6. FileInv(b)'  BY <1>1 DEF FileInv
<1> QED  BY <1>1, <1>2, <1>3, <1>5, <1>6, Combine

LEMMA CompiledInv ==
  ASSUME DirectoryInv, NEW b \in Backends, NEW p \in Packages, Compiled(b, p), pc[b] # "idle",
         opts[b].release \notin Local => Named(opts[b].release, p),
         UNCHANGED <<remote, files, fd, alone>>, ~fd[b]
  PROVE  DirectoryInv'
<1>1. CallsOK' /\ CallInv(b)' /\ FileInv(b)' /\ \A c \in Backends \ {b} : Untouched(c)
  BY Got
<1>2. RemoteOK' /\ DirOK' /\ FilesNamed'  BY DirectoryKept
<1>3. Elsewhere(b)  BY <1>1, NoFileChanged
<1> QED  BY <1>1, <1>2, <1>3, Combine

\* Only while it writes has a backend a file open.
LEMMA Closed ==
  ASSUME DirectoryInv, NEW b \in Backends, pc[b] # "write"
  PROVE  ~fd[b]
BY DEF DirectoryInv, FileInv

LEMMA Empty ==
  ASSUME DirectoryInv, NEW b \in Backends, pc[b] \notin {"create", "write", "load", "discard"}
  PROVE  bytes[b] = None
BY DEF DirectoryInv, CallInv

LEMMA NewInv == ASSUME DirectoryInv, NEW b \in Backends, New(b)  PROVE DirectoryInv'
<1>1. RemoteOK /\ DirOK /\ CallsOK /\ FilesNamed /\ CallInv(b)  BY Parts DEF DirectoryInv
<1>2. UNCHANGED <<remote, files, fd>> /\ ~fd[b]  BY Closed DEF New
<1>3. RemoteOK' /\ FilesNamed'  BY <1>1, <1>2 DEF RemoteOK, FilesNamed, Named, remote
<1>4. DirOK'  BY <1>1, <1>2 DEF DirOK, New
<1>5. CallsOK'  BY <1>1 DEF CallsOK, RemoteOK, Labels, New, GoTo
<1>6. \A c \in Backends \ {b} : Untouched(c)  BY <1>1 DEF CallsOK, Untouched, New, GoTo
<1>7. Elsewhere(b)  BY <1>1, <1>2, <1>6 DEF DirOK, Elsewhere, Untouched, Present, KeyOf, New
<1>8. /\ pc'[b] = (IF server.release \in Local THEN "local" ELSE "lookup") /\ opts'[b] = server
      /\ bytes'[b] = None /\ loaded'[b] = None
  BY <1>1 DEF CallsOK, CallInv, New, GoTo
<1>9. server \in named'
  <2>1. server \in named  BY DEF DirectoryInv
  <2> QED  BY <2>1, <1>2 DEF remote
<1>10. CallInv(b)'  BY <1>8, <1>9 DEF CallInv
<1>11. FileInv(b)'  BY <1>2, <1>8 DEF FileInv
<1> QED  BY <1>2, <1>3, <1>4, <1>5, <1>6, <1>7, <1>10, <1>11, Combine

LEMMA LoadLocalInv == ASSUME DirectoryInv, NEW b \in Backends, LoadLocal(b)  PROVE DirectoryInv'
<1> DEFINE p == served[opts[b].release]
<1>1. pc[b] = "local" /\ UNCHANGED <<remote, files, fd, alone>> /\ ~fd[b]  BY Closed DEF LoadLocal
<1>2. opts[b].release \in Local  BY <1>1 DEF DirectoryInv, CallInv
<1>3. CASE p \in Components
  <2>1. p \in Packages  BY <1>3, ComponentAssumption DEF ComponentAssumption
  <2>2. Compiled(b, p)  BY <1>3 DEF LoadLocal
  <2> HIDE DEF p
  <2> QED  BY <1>1, <1>2, <2>1, <2>2, CompiledInv
<1>4. CASE p \notin Components
  <2>1. Fail(b)  BY <1>4 DEF LoadLocal
  <2> QED  BY <1>1, <2>1, FailInv
<1> QED  BY <1>3, <1>4

LEMMA ExistsInv == ASSUME DirectoryInv, NEW b \in Backends, Exists(b)  PROVE DirectoryInv'
<1>1. pc[b] = "lookup" /\ UNCHANGED <<remote, files, fd, alone>> /\ ~fd[b]  BY Closed DEF Exists
<1>0. bytes[b] = None  BY <1>1, Empty
<1>2. CASE GoOn(b, "cached")  BY <1>0, <1>1, <1>2, GoOnInv DEF Labels
<1>3. CASE GoOn(b, "download")  BY <1>0, <1>1, <1>3, GoOnInv DEF Labels
<1>4. CASE Fail(b)  BY <1>1, <1>4, FailInv
<1> QED  BY <1>2, <1>3, <1>4 DEF Exists, NeedsDownload

LEMMA LoadCachedInv == ASSUME DirectoryInv, NEW b \in Backends, LoadCached(b)  PROVE DirectoryInv'
<1>1. pc[b] = "cached" /\ UNCHANGED <<remote, files, fd, alone>> /\ ~fd[b]  BY Closed DEF LoadCached
<1>2. ASSUME NEW p \in Components, Loads(KeyOf(b), p), Compiled(b, p)  PROVE DirectoryInv'
  <2>1. p \in Packages /\ Named(opts[b].release, p)  BY <1>2, FileIsNamed
  <2> QED  BY <1>1, <1>2, <2>1, CompiledInv
<1>3. CASE GoOn(b, "evict")
  <2>1. bytes[b] = None  BY <1>1, Empty
  <2> QED  BY <1>1, <1>3, <2>1, GoOnInv DEF Labels
<1> QED  BY <1>2, <1>3 DEF LoadCached

LEMMA DownloadInv == ASSUME DirectoryInv, NEW b \in Backends, Download(b)  PROVE DirectoryInv'
<1>1. pc[b] = "download" /\ UNCHANGED <<remote, files, fd, alone>> /\ ~fd[b]  BY Closed DEF Download
<1>2. CASE Fail(b)  BY <1>1, <1>2, FailInv
<1>3. CASE /\ served[opts[b].release] = opts[b].checksum
           /\ bytes' = [bytes EXCEPT ![b] = opts[b].checksum]
           /\ GoTo(b, "create") /\ UNCHANGED <<opts, at, loaded>>
  <2>1. RemoteOK /\ CallsOK /\ CallInv(b)  BY Parts DEF DirectoryInv
  <2>2. opts[b] \in Servers  BY <1>1, <2>1 DEF CallInv, RemoteOK
  <2>3. opts[b].checksum \in Packages /\ opts[b].checksum # None
    <3>1. opts[b].release \in Releases
      BY <2>2, ComponentAssumption DEF ComponentAssumption
    <3>2. served[opts[b].release] \in Packages  BY <2>1, <3>1 DEF RemoteOK
    <3> QED  BY <1>3, <3>2, ComponentAssumption DEF ComponentAssumption
  <2>4. CallsOK'  BY <2>1, <2>3, <1>3 DEF CallsOK, Labels, Blocks, GoTo
  <2>5. \A c \in Backends \ {b} : Untouched(c)  BY <2>1, <1>3 DEF CallsOK, Untouched, GoTo
  <2>6. pc'[b] = "create" /\ bytes'[b] = opts[b].checksum /\ opts' = opts /\ loaded' = loaded
    BY <2>1, <1>3 DEF CallsOK, GoTo
  <2>7. CallInv(b)'  BY <1>1, <2>1, <2>3, <2>6 DEF CallInv, Named, remote
  <2>8. bytes[b] = None  BY <1>1, Empty
  <2>9. at[b] = 0 /\ at' = at  BY <2>1, <2>8, <1>3 DEF CallsOK
  <2>10. FileInv(b)'  BY <1>1, <2>6, <2>9 DEF FileInv
  <2>11. RemoteOK' /\ DirOK' /\ FilesNamed'  BY <1>1, DirectoryKept
  <2>12. Elsewhere(b)  BY <1>1, <2>5, NoFileChanged
  <2> QED  BY <1>1, <2>4, <2>5, <2>7, <2>10, <2>11, <2>12, Combine
<1> QED  BY <1>2, <1>3 DEF Download

LEMMA CreateInv == ASSUME DirectoryInv, NEW b \in Backends, Create(b)  PROVE DirectoryInv'
<1> USE ComponentAssumption
<1>1. RemoteOK /\ DirOK /\ CallsOK /\ CallInv(b) /\ FileInv(b)  BY Parts DEF DirectoryInv
<1>2. /\ pc[b] = "create" /\ UNCHANGED <<remote, opts, bytes, at, loaded>>
      /\ files' = With(KeyOf(b), <<>>) /\ fd' = [fd EXCEPT ![b] = TRUE]
      /\ Disturb(b) /\ pc' = [pc EXCEPT ![b] = "write"]
  BY DEF Create, GoTo
<1>3. \A c \in Backends \ {b} : Untouched(c) /\ fd'[c] = fd[c]
  BY <1>1, <1>2 DEF CallsOK, DirOK, Untouched
<1>4. opts[b] \in Servers  BY <1>1, <1>2 DEF CallInv, RemoteOK
<1>5. <<>> \in Seq(Blocks) /\ DOMAIN <<>> = {}  OBVIOUS
<1>6. fd' \in [Backends -> BOOLEAN]  BY <1>1, <1>2 DEF DirOK
<1>7. RemoteOK' /\ DirOK' /\ FilesNamed' /\ Elsewhere(b)
  BY <1>2, <1>3, <1>4, <1>5, <1>6, FileChanged
<1>8. CallsOK'  BY <1>1, <1>2 DEF CallsOK, Labels
<1>9. pc'[b] = "write" /\ fd'[b]  BY <1>1, <1>2 DEF CallsOK, DirOK
<1>10. CallInv(b)'  BY <1>1, <1>2, <1>9 DEF CallInv, Named, remote
<1>11. at[b] = 0 /\ at[b] < Size[bytes[b]]
  <2>1. bytes[b] \in Packages  BY <1>1, <1>2 DEF CallInv, CallsOK, Blocks
  <2>2. Size[bytes[b]] \in Nat \ {0}  BY <2>1 DEF ComponentAssumption
  <2>3. at[b] = 0  BY <1>1, <1>2 DEF FileInv
  <2> QED  BY <2>2, <2>3
<1>12. KeyOf(b)' = KeyOf(b)  BY <1>2 DEF KeyOf
<1>13. Present(KeyOf(b))' /\ files'[KeyOf(b)] = <<>>  BY <1>2, <1>12 DEF Present, With
<1>14. <<>> = [i \in 1..0 |-> bytes[b]]  OBVIOUS
<1>15. FileInv(b)'  BY <1>2, <1>9, <1>11, <1>12, <1>13, <1>14 DEF FileInv
<1> QED  BY <1>2, <1>3, <1>7, <1>8, <1>10, <1>15, Combine

LEMMA LoadInv == ASSUME DirectoryInv, NEW b \in Backends, Load(b)  PROVE DirectoryInv'
<1>1. pc[b] = "load" /\ UNCHANGED <<remote, files, fd, alone>> /\ ~fd[b]  BY Closed DEF Load
<1>2. ASSUME NEW p \in Components, Loads(KeyOf(b), p), Compiled(b, p)  PROVE DirectoryInv'
  <2>1. p \in Packages /\ Named(opts[b].release, p)  BY <1>2, FileIsNamed
  <2> QED  BY <1>1, <1>2, <2>1, CompiledInv
<1>3. CASE ~Loadable(KeyOf(b)) /\ GoOn(b, "discard")
  <2>1. opts[b].checksum \in Components => ~alone[b]
    <3>1. bytes[b] = opts[b].checksum  BY <1>1 DEF DirectoryInv, CallInv
    <3>2. alone[b] => Present(KeyOf(b)) /\ files[KeyOf(b)] = Content(bytes[b])
      BY <1>1 DEF DirectoryInv, FileInv
    <3> QED  BY <1>3, <3>1, <3>2 DEF Loadable, Loads
  <2> QED  BY <1>1, <1>3, <2>1, GoOnInv DEF Labels
<1> QED  BY <1>2, <1>3 DEF Load

LEMMA DiscardInv == ASSUME DirectoryInv, NEW b \in Backends, Discard(b)  PROVE DirectoryInv'
<1>1. Fail(b) /\ RemoveFile(b) /\ UNCHANGED remote  BY DEF Discard
<1>2. CallsOK' /\ CallInv(b)' /\ (~fd'[b] => FileInv(b)') /\ \A c \in Backends \ {b} : Untouched(c)
  BY <1>1, Failed
<1>3. RemoteOK' /\ DirOK' /\ FilesNamed' /\ Elsewhere(b) /\ ~fd'[b]  BY <1>1, <1>2, FileRemoved
<1> QED  BY <1>1, <1>2, <1>3, Combine

LEMMA EvictInv == ASSUME DirectoryInv, NEW b \in Backends, Evict(b)  PROVE DirectoryInv'
<1>1. pc[b] = "evict" /\ RemoveFile(b) /\ UNCHANGED remote  BY DEF Evict
<1>2. CASE Fail(b)
  <2>1. CallsOK' /\ CallInv(b)' /\ (~fd'[b] => FileInv(b)') /\ \A c \in Backends \ {b} : Untouched(c)
    BY <1>2, Failed
  <2>2. RemoteOK' /\ DirOK' /\ FilesNamed' /\ Elsewhere(b) /\ ~fd'[b]  BY <1>1, <2>1, FileRemoved
  <2> QED  BY <1>1, <2>1, <2>2, Combine
<1>3. CASE GoOn(b, "download")
  <2>1. /\ CallsOK' /\ \A c \in Backends \ {b} : Untouched(c)
        /\ pc'[b] = "download" /\ opts' = opts /\ bytes' = bytes /\ at' = at /\ loaded' = loaded
    BY <1>3, WentOn DEF Labels
  <2>2. RemoteOK' /\ DirOK' /\ FilesNamed' /\ Elsewhere(b) /\ ~fd'[b]  BY <1>1, <2>1, FileRemoved
  <2>3. CallInv(b) /\ bytes[b] = None  BY <1>1, Empty DEF DirectoryInv
  <2>4. CallInv(b)'  BY <1>1, <2>1, <2>3 DEF CallInv, Named, remote
  <2>5. FileInv(b)'  BY <2>1, <2>2 DEF FileInv
  <2> QED  BY <1>1, <2>1, <2>2, <2>4, <2>5, Combine
<1> QED  BY <1>2, <1>3 DEF Evict, NeedsDownload

LEMMA InstantiateInv == ASSUME DirectoryInv, NEW b \in Backends, Instantiate(b)  PROVE DirectoryInv'
<1>1. pc[b] = "instantiate" /\ UNCHANGED <<remote, files, fd, alone>> /\ ~fd[b]
  BY Closed DEF Instantiate
<1>2. CASE GoOn(b, "ready")
  <2>1. bytes[b] = None  BY <1>1, Empty
  <2> QED  BY <1>1, <1>2, <2>1, GoOnInv DEF Labels
<1>3. CASE Fail(b)  BY <1>1, <1>3, FailInv
<1> QED  BY <1>2, <1>3 DEF Instantiate

LEMMA DropInstanceInv == ASSUME DirectoryInv, NEW b \in Backends, DropInstance(b)  PROVE DirectoryInv'
<1>1. UNCHANGED <<remote, files, fd, alone>> /\ ~fd[b] /\ Fail(b)  BY Closed DEF DropInstance
<1> QED  BY <1>1, FailInv

LEMMA WriteErrorInv == ASSUME DirectoryInv, NEW b \in Backends, WriteError(b)  PROVE DirectoryInv'
<1>1. Fail(b) /\ UNCHANGED <<remote, files, alone>> /\ fd' = [fd EXCEPT ![b] = FALSE]
  BY DEF WriteError
<1>2. RemoteOK /\ DirOK /\ FilesNamed  BY Parts DEF DirectoryInv
<1>3. ~fd'[b] /\ \A c \in Backends \ {b} : fd'[c] = fd[c]  BY <1>1, <1>2 DEF DirOK
<1>4. CallsOK' /\ CallInv(b)' /\ FileInv(b)' /\ \A c \in Backends \ {b} : Untouched(c)
  BY <1>1, <1>3, Failed
<1>5. RemoteOK' /\ DirOK' /\ FilesNamed'
  BY <1>1, <1>2 DEF RemoteOK, DirOK, FilesNamed, Named, remote
<1>6. Elsewhere(b)  BY <1>1, <1>3, <1>4 DEF Elsewhere, Untouched, Present, KeyOf
<1> QED  BY <1>1, <1>4, <1>5, <1>6, Combine

LEMMA WriteInv == ASSUME DirectoryInv, NEW b \in Backends, Write(b)  PROVE DirectoryInv'
<1> USE ComponentAssumption
<1> DEFINE n == at[b]
           p == bytes[b]
<1>1. RemoteOK /\ DirOK /\ CallsOK /\ FilesNamed /\ CallInv(b) /\ FileInv(b)
  BY Parts DEF DirectoryInv
<1>2. pc[b] = "write" /\ UNCHANGED <<remote, opts, bytes, loaded>> /\ at' = [at EXCEPT ![b] = @ + 1]
  BY DEF Write
<1>3. p \in Packages /\ n \in Nat /\ Size[p] \in Nat \ {0} /\ n < Size[p]
  BY <1>1, <1>2 DEF CallsOK, CallInv, FileInv, Blocks, ComponentAssumption
<1>4. at'[b] = n + 1  BY <1>1, <1>2 DEF CallsOK
<1>5. /\ pc' = [pc EXCEPT ![b] = IF n + 1 = Size[p] THEN "load" ELSE "write"]
      /\ fd' = [fd EXCEPT ![b] = fd[b] /\ n + 1 # Size[p]]
  <2>1. CASE n + 1 = Size[p]  BY <1>1, <2>1 DEF Write, GoTo, DirOK
  <2>2. CASE n + 1 # Size[p]  BY <1>1, <1>2, <2>2 DEF Write, CallsOK, DirOK
  <2> QED  BY <2>1, <2>2
<1>6. \A c \in Backends \ {b} : Untouched(c) /\ fd'[c] = fd[c]
  BY <1>1, <1>2, <1>5 DEF CallsOK, DirOK, Untouched
<1>7. CallsOK'  BY <1>1, <1>2, <1>3, <1>4, <1>5 DEF CallsOK, CallInv, Labels
<1>8. pc'[b] = (IF n + 1 = Size[p] THEN "load" ELSE "write") /\ fd'[b] = (fd[b] /\ n + 1 # Size[p])
  BY <1>1, <1>5 DEF CallsOK, DirOK
<1>9. CallInv(b)'  BY <1>1, <1>2, <1>8 DEF CallInv, Named, remote
<1>10. KeyOf(b)' = KeyOf(b)  BY <1>2 DEF KeyOf
<1>11. CASE ~fd[b]
  <2>1. UNCHANGED <<files, alone>>  BY <1>11 DEF Write
  <2>2. RemoteOK' /\ FilesNamed'  BY <1>1, <1>2, <2>1 DEF RemoteOK, FilesNamed, Named, remote
  <2>3. DirOK'  BY <1>1, <1>5, <2>1 DEF DirOK
  <2>4. Elsewhere(b)  BY <1>6, <2>1 DEF Elsewhere, Untouched, Present, KeyOf
  <2>5. ~alone[b]  BY <1>1, <1>2, <1>11 DEF FileInv
  <2>6. FileInv(b)'
    <3>1. ~fd'[b] /\ ~alone'[b] /\ pc'[b] \in {"load", "write"} /\ bytes' = bytes
      BY <1>2, <1>8, <1>11, <2>1, <2>5
    <3>2. pc'[b] = "write" => at'[b] < Size[bytes'[b]]
      <4>1. pc'[b] = "write" => n + 1 # Size[p]  BY <1>8
      <4>2. n + 1 # Size[p] => n + 1 < Size[p]  BY <1>3
      <4> QED  BY <1>2, <1>4, <4>1, <4>2
    <3> QED  BY <3>1, <3>2 DEF FileInv
  <2> QED  BY <1>2, <1>6, <1>7, <1>9, <2>2, <2>3, <2>4, <2>6, Combine
<1>12. CASE fd[b]
  <2> DEFINE c0 == files[KeyOf(b)]
             c1 == PutAt(c0, n + 1, p)
  <2>1. files' = With(KeyOf(b), c1) /\ Disturb(b)  BY <1>12 DEF Write
  <2>2. KeyOf(b) \in DOMAIN files /\ c0 \in Seq(Blocks)
    BY <1>1, <1>12 DEF FileInv, Present, DirOK
  <2>3. p \in Blocks /\ n + 1 \in Nat \ {0}  BY <1>3 DEF Blocks
  <2>4. /\ c1 \in Seq(Blocks)
        /\ \A i \in DOMAIN c1 : c1[i] \in {p, None} \/ (i \in DOMAIN c0 /\ c1[i] = c0[i])
    <3> HIDE DEF c0, p, n
    <3> QED  BY <2>2, <2>3, PutInSeq
  <2>5. opts[b] \in named /\ opts[b] \in Servers /\ p = opts[b].checksum
    BY <1>1, <1>2 DEF CallInv, RemoteOK
  <2>6. Named(opts[b].release, p)
    BY <2>5 DEF Named, ComponentAssumption
  <2>7. \A i \in DOMAIN c0 : c0[i] # None => Named(opts[b].release, c0[i])
    BY <1>1, <2>2 DEF FilesNamed, KeyOf
  <2>8. \A i \in DOMAIN c1 : c1[i] # None => Named(opts[b].release, c1[i])
    <3> HIDE DEF c0, c1, p
    <3> QED  BY <2>4, <2>6, <2>7
  <2>9. fd' \in [Backends -> BOOLEAN]  BY <1>1, <1>5 DEF DirOK
  <2>10. RemoteOK' /\ DirOK' /\ FilesNamed' /\ Elsewhere(b)
    <3> HIDE DEF c1
    <3> QED  BY <1>2, <1>6, <2>1, <2>4, <2>5, <2>8, <2>9, FileChanged
  <2>11. Present(KeyOf(b))' /\ files'[KeyOf(b)] = c1
    BY <1>10, <2>1 DEF Present, With
  <2>12. alone'[b] => c1 = [i \in 1..(n + 1) |-> p]
    <3>1. alone'[b] = alone[b]  BY <1>1, <2>1 DEF Disturb, DirOK
    <3>2. alone[b] => c0 = [i \in 1..n |-> p]  BY <1>1, <1>2 DEF FileInv
    <3>3. PutAt([i \in 1..n |-> p], n + 1, p) = [i \in 1..(n + 1) |-> p]
      <4>1. n \in Nat /\ p \in Blocks  BY <1>3, <2>3
      <4> HIDE DEF p, n
      <4> QED  BY <4>1, PutNext
    <3> QED  BY <3>1, <3>2, <3>3
  <2>13. FileInv(b)'
    <3>1. CASE n + 1 = Size[p]
      BY <1>2, <1>8, <1>10, <2>11, <2>12, <3>1 DEF FileInv, Content
    <3>2. CASE n + 1 # Size[p]
      <4>1. n + 1 < Size[p]  BY <1>3, <3>2
      <4> QED  BY <1>2, <1>4, <1>8, <1>10, <1>12, <2>11, <2>12, <3>2, <4>1 DEF FileInv
    <3> QED  BY <3>1, <3>2
  <2> QED  BY <1>2, <1>6, <1>7, <1>9, <2>10, <2>13, Combine
<1> QED  BY <1>11, <1>12

LEMMA StepInv == ASSUME DirectoryInv, NEW b \in Backends, Step(b)  PROVE DirectoryInv'
BY NewInv, LoadLocalInv, ExistsInv, LoadCachedInv, EvictInv, DownloadInv, CreateInv, WriteInv,
   WriteErrorInv, LoadInv, DiscardInv, InstantiateInv, DropInstanceInv DEF Step

\* Names are only added to those the server had.
LEMMA RemoteMoves ==
  ASSUME DirectoryInv, RemoteOK', server' \in named', named \subseteq named',
         UNCHANGED <<files, pc, opts, bytes, fd, at, loaded, alone>>
  PROVE  DirectoryInv'
<1>1. RemoteOK /\ DirOK /\ CallsOK /\ FilesNamed /\ \A b \in Backends : CallInv(b) /\ FileInv(b)
  BY Parts DEF DirectoryInv
<1>2. DirOK' /\ CallsOK'  BY <1>1 DEF DirOK, CallsOK
<1>3. TypeOK'  BY <1>2, Parts, PTL
<1>4. FilesNamed'  BY <1>1 DEF FilesNamed, Named
<1>5. \A b \in Backends : CallInv(b)'  BY <1>1 DEF CallInv, Named
<1>6. \A b \in Backends : FileInv(b)'  BY <1>1 DEF FileInv, Present, KeyOf
<1> QED  BY <1>3, <1>4, <1>5, <1>6 DEF DirectoryInv

LEMMA OthersInv == ASSUME DirectoryInv, AlterServer \/ Publish  PROVE DirectoryInv'
<1>1. RemoteOK /\ server \in named  BY Parts DEF DirectoryInv
<1>2. CASE AlterServer
  <2>1. RemoteOK' /\ server' \in named' /\ named \subseteq named'
    BY <1>1, <1>2 DEF RemoteOK, AlterServer
  <2> QED  BY <1>2, <2>1, RemoteMoves DEF AlterServer
<1>3. CASE Publish
  <2>1. RemoteOK' /\ server' \in named' /\ named \subseteq named'
    BY <1>1, <1>3, ComponentAssumption DEF RemoteOK, Publish, ComponentAssumption
  <2> QED  BY <1>3, <2>1, RemoteMoves DEF Publish
<1> QED  BY <1>2, <1>3

LEMMA CrashInv == ASSUME DirectoryInv, Crash  PROVE DirectoryInv'
<1>1. RemoteOK /\ server \in named /\ DirOK /\ FilesNamed  BY Parts DEF DirectoryInv
<1>2. RemoteOK' /\ (server \in named)' /\ FilesNamed'
  BY <1>1 DEF RemoteOK, FilesNamed, Named, Crash, remote
<1>3. DirOK'  BY <1>1 DEF DirOK, Crash
<1>4. CallsOK'  BY DEF CallsOK, Labels, Blocks, Crash
<1>5. TypeOK'  BY <1>2, <1>3, <1>4, Parts, PTL
<1>6. \A b \in Backends : CallInv(b)'  BY DEF CallInv, Crash
<1>7. \A b \in Backends : FileInv(b)'  BY DEF FileInv, Crash
<1> QED  BY <1>2, <1>5, <1>6, <1>7 DEF DirectoryInv

LEMMA StutterInv == ASSUME DirectoryInv, UNCHANGED vars  PROVE DirectoryInv'
<1>1. RemoteOK /\ server \in named  BY Parts DEF DirectoryInv
<1>2. RemoteOK' /\ server' \in named' /\ named \subseteq named'  BY <1>1 DEF RemoteOK, vars
<1> QED  BY <1>2, RemoteMoves DEF vars

LEMMA Invariance == Spec => []DirectoryInv
<1>1. DirectoryInv /\ [Next]_vars => DirectoryInv'
  BY StepInv, OthersInv, CrashInv, StutterInv DEF Next
<1> QED  BY InitInv, <1>1, PTL DEF Spec

-----------------------------------------------------------------------------
(* Theorems. *)

\* The variables have the types their use in wasm_fdw.rs gives them.
THEOREM TypeCorrect == Spec => []TypeOK
<1>1. DirectoryInv => TypeOK  BY DEF DirectoryInv
<1> QED  BY Invariance, <1>1, PTL

\* Whatever the backends do to each other's files, and wherever they crash, a
\* component compiled from the cache was named for its release with its checksum.
THEOREM OnlyNamedLoaded == Spec => []LoadedWasNamed
<1>1. DirectoryInv => LoadedWasNamed  BY DEF DirectoryInv, CallInv, Named, LoadedWasNamed
<1> QED  BY Invariance, <1>1, PTL

\* `new` reports an invalid component only for a package that does not compile,
\* or when another backend was at its file.
THEOREM RepairsTheCache == Spec => []InvalidOnlyWhenDisturbed
<1>1. DirectoryInv => InvalidOnlyWhenDisturbed
  BY DEF DirectoryInv, FileInv, InvalidOnlyWhenDisturbed
<1> QED  BY Invariance, <1>1, PTL

=============================================================================
