--------------------------- MODULE WasmComponent ---------------------------
(***************************************************************************)
(* How the Wasm wrapper gets its component                                 *)
(* (wrappers/src/fdw/wasm_fdw/wasm_fdw.rs): `new` of every instance looks  *)
(* into a cache directory that all backends of the machine share, and      *)
(* downloads, checks and saves the package when it is not there.  Nothing  *)
(* locks the directory, and nothing but the release is in a file's name.   *)
(*                                                                         *)
(* A package is its bytes, which are some blocks; its checksum is the      *)
(* package itself.  A release is an URL, a name and a version.             *)
(***************************************************************************)
EXTENDS Integers, Sequences

CONSTANTS
  Backends, UserOf,   \* the backends, and the user each works for
  Packages, Size,     \* what may be published, and how many blocks it has
  Components,         \* those of them that compile
  Fitting,            \* those whose interface and required version suit this host
  Releases, Local,    \* where packages come from; file:// and warg:// not cached here
  Offers,             \* what may be published as each
  Servers,            \* the options CREATE SERVER and ALTER SERVER may give
  None                \* no checksum, no component, or a block never written

ASSUME ComponentAssumption ==
  /\ Size \in [Packages -> Nat \ {0}]
  /\ None \notin Packages
  /\ Components \subseteq Packages
  /\ Local \subseteq Releases
  /\ Offers \in [Releases -> SUBSET Packages]
  /\ Servers \subseteq [release : Releases, checksum : Packages \cup {None}]

Blocks == Packages \cup {None}
Keys   == {UserOf[b] : b \in Backends} \X Releases

VARIABLES
  server,   \* the options of the foreign server
  named,    \* all it had so far
  served,   \* the package each release is at the moment
  files,    \* the files of the cache directory: what is in each
  pc,       \* where the backend is in `new`
  opts,     \* the options it read, None outside `new` and without an instance
  bytes,    \* the package it downloaded
  fd,       \* whether the file it writes is still the one in the directory
  at,       \* how many blocks it wrote
  loaded,   \* the component it compiled
  alone     \* nobody else changed its file since `new` began

remote == <<server, named, served>>
vars == <<server, named, served, files, pc, opts, bytes, fd, at, loaded, alone>>

Init ==
  /\ server \in Servers /\ named = {server}
  /\ served \in {s \in [Releases -> Packages] : \A r \in Releases : s[r] \in Offers[r]}
  /\ files = <<>>
  /\ pc = [b \in Backends |-> "idle"]
  /\ opts = [b \in Backends |-> None]
  /\ bytes = [b \in Backends |-> None]
  /\ fd = [b \in Backends |-> FALSE]
  /\ at = [b \in Backends |-> 0]
  /\ loaded = [b \in Backends |-> None]
  /\ alone = [b \in Backends |-> TRUE]

-----------------------------------------------------------------------------
(* Files. *)

\* Faulty: the version is left out, so the releases of a package share a file.
KeyWithoutVersion(b) == <<UserOf[b], CHOOSE r \in Releases : TRUE>>

\* get_cache_path: a digest of the user, the URL, the name and the version.
KeyOf(b) == <<UserOf[b], opts[b].release>>

Present(k) == k \in DOMAIN files

Content(p) == [i \in 1..Size[p] |-> p]

\* load_component_from_file: the file holds the bytes of a component, all of
\* them, nothing else and nothing of another.
Loads(k, p) == Present(k) /\ p \in Components /\ files[k] = Content(p)
Loadable(k) == \E p \in Components : Loads(k, p)

With(k, content) == [x \in DOMAIN files \cup {k} |-> IF x = k THEN content ELSE files[x]]

\* A block is written at the writer's own position, whatever others did to the
\* file; a gap before it reads as zeros.
PutAt(content, i, p) ==
  [j \in 1..(IF i > Len(content) THEN i ELSE Len(content)) |->
     IF j = i THEN p ELSE IF j <= Len(content) THEN content[j] ELSE None]

\* The others that are in `new` for the same file notice that b changed it.
Disturb(b) ==
  alone' = [c \in Backends |->
              alone[c] /\ (c = b \/ pc[c] = "idle" \/ KeyOf(c) # KeyOf(b))]

\* fs::remove_file, its error ignored; who writes the file goes on writing it.
RemoveFile(b) ==
  /\ files' = [x \in DOMAIN files \ {KeyOf(b)} |-> files[x]]
  /\ fd' = [c \in Backends |-> fd[c] /\ KeyOf(c) # KeyOf(b)]
  /\ Disturb(b)

-----------------------------------------------------------------------------
(* A backend. *)

GoTo(b, l) == pc' = [pc EXCEPT ![b] = l]

\* Faulty: the next file is written from where this one was given up.
FailKeepsPosition(b) ==
  /\ GoTo(b, "idle")
  /\ opts' = [opts EXCEPT ![b] = None]
  /\ bytes' = [bytes EXCEPT ![b] = None]
  /\ loaded' = [loaded EXCEPT ![b] = None]
  /\ UNCHANGED at

\* An error, at the end of which nothing is left of the call.
Fail(b) ==
  /\ GoTo(b, "idle")
  /\ opts' = [opts EXCEPT ![b] = None]
  /\ bytes' = [bytes EXCEPT ![b] = None]
  /\ at' = [at EXCEPT ![b] = 0]
  /\ loaded' = [loaded EXCEPT ![b] = None]

Compiled(b, p) ==
  /\ GoTo(b, "instantiate")
  /\ loaded' = [loaded EXCEPT ![b] = p]
  /\ bytes' = [bytes EXCEPT ![b] = None]
  /\ at' = [at EXCEPT ![b] = 0]
  /\ UNCHANGED opts

GoOn(b, l) == GoTo(b, l) /\ UNCHANGED <<opts, bytes, at, loaded>>

\* WasmFdw::new reads the options of the server.
New(b) ==
  /\ pc[b] = "idle"
  /\ opts' = [opts EXCEPT ![b] = server]
  /\ alone' = [alone EXCEPT ![b] = TRUE]
  /\ GoTo(b, IF server.release \in Local THEN "local" ELSE "lookup")
  /\ UNCHANGED <<remote, files, bytes, fd, at, loaded>>

\* download_component of a file:// URL, and of a warg:// URL, whose client has
\* a store of its own.
LoadLocal(b) ==
  /\ pc[b] = "local"
  /\ LET p == served[opts[b].release] IN
       IF p \in Components THEN Compiled(b, p) ELSE Fail(b)
  /\ UNCHANGED <<remote, files, fd, alone>>

\* Without a checksum nothing is downloaded.
NeedsDownload(b) == IF opts[b].checksum # None THEN GoOn(b, "download") ELSE Fail(b)

Exists(b) ==
  /\ pc[b] = "lookup"
  /\ IF Present(KeyOf(b)) THEN GoOn(b, "cached") ELSE NeedsDownload(b)
  /\ UNCHANGED <<remote, files, fd, alone>>

\* Faulty: a file that does not load is removed and reported.
LoadCachedOrFail(b) ==
  /\ pc[b] = "cached"
  /\ \/ \E p \in Components : Loads(KeyOf(b), p) /\ Compiled(b, p)
     \/ ~Loadable(KeyOf(b)) /\ GoOn(b, "discard")
  /\ UNCHANGED <<remote, files, fd, alone>>

LoadCached(b) ==
  /\ pc[b] = "cached"
  /\ \/ \E p \in Components : Loads(KeyOf(b), p) /\ Compiled(b, p)
     \/ ~Loadable(KeyOf(b)) /\ GoOn(b, "evict")
  /\ UNCHANGED <<remote, files, fd, alone>>

\* The file did not load a moment ago.
Evict(b) ==
  /\ pc[b] = "evict"
  /\ RemoveFile(b)
  /\ NeedsDownload(b)
  /\ UNCHANGED remote

\* Faulty: the digest is not compared.
DownloadUnverified(b) ==
  /\ pc[b] = "download"
  /\ bytes' = [bytes EXCEPT ![b] = served[opts[b].release]]
  /\ GoTo(b, "create")
  /\ UNCHANGED <<remote, files, opts, fd, at, loaded, alone>>

\* download_and_verify; the server may also be down.
Download(b) ==
  /\ pc[b] = "download"
  /\ \/ /\ served[opts[b].release] = opts[b].checksum
        /\ bytes' = [bytes EXCEPT ![b] = opts[b].checksum]
        /\ GoTo(b, "create")
        /\ UNCHANGED <<opts, at, loaded>>
     \/ Fail(b)
  /\ UNCHANGED <<remote, files, fd, alone>>

\* save_to_cache: fs::write makes or empties the file ...
Create(b) ==
  /\ pc[b] = "create"
  /\ files' = With(KeyOf(b), <<>>)
  /\ fd' = [fd EXCEPT ![b] = TRUE]
  /\ Disturb(b)
  /\ GoTo(b, "write")
  /\ UNCHANGED <<remote, opts, bytes, at, loaded>>

\* ... writes what it has, and closes it.
Write(b) ==
  /\ pc[b] = "write"
  /\ at' = [at EXCEPT ![b] = @ + 1]
  /\ IF fd[b] THEN /\ files' = With(KeyOf(b), PutAt(files[KeyOf(b)], at[b] + 1, bytes[b]))
                   /\ Disturb(b)
              ELSE UNCHANGED <<files, alone>>
  /\ IF at[b] + 1 = Size[bytes[b]] THEN /\ GoTo(b, "load")
                                        /\ fd' = [fd EXCEPT ![b] = FALSE]
                                   ELSE UNCHANGED <<pc, fd>>
  /\ UNCHANGED <<remote, opts, bytes, loaded>>

\* The directory cannot be made or the disk is full; what was written stays.
WriteError(b) ==
  /\ pc[b] \in {"create", "write"}
  /\ Fail(b)
  /\ fd' = [fd EXCEPT ![b] = FALSE]
  /\ UNCHANGED <<remote, files, alone>>

Load(b) ==
  /\ pc[b] = "load"
  /\ \/ \E p \in Components : Loads(KeyOf(b), p) /\ Compiled(b, p)
     \/ ~Loadable(KeyOf(b)) /\ GoOn(b, "discard")
  /\ UNCHANGED <<remote, files, fd, alone>>

\* InvalidWasmComponent.
Discard(b) ==
  /\ pc[b] = "discard"
  /\ RemoveFile(b)
  /\ Fail(b)
  /\ UNCHANGED remote

\* The rest of `new`: the interfaces v1 and v2 are tried, then the guest's
\* requirement on the host's version, then its init, which may fail.
Instantiate(b) ==
  /\ pc[b] = "instantiate"
  /\ (loaded[b] \in Fitting /\ GoOn(b, "ready")) \/ Fail(b)
  /\ UNCHANGED <<remote, files, fd, alone>>

DropInstance(b) ==
  /\ pc[b] = "ready"
  /\ Fail(b)
  /\ UNCHANGED <<remote, files, fd, alone>>

-----------------------------------------------------------------------------
(* The others. *)

AlterServer ==
  /\ server' \in Servers
  /\ named' = named \cup {server'}
  /\ UNCHANGED <<served, files, pc, opts, bytes, fd, at, loaded, alone>>

Publish ==
  /\ \E r \in Releases : \E p \in Offers[r] : served' = [served EXCEPT ![r] = p]
  /\ UNCHANGED <<server, named, files, pc, opts, bytes, fd, at, loaded, alone>>

\* A backend that dies takes the others with it.  The files stay as they are.
Crash ==
  /\ pc' = [b \in Backends |-> "idle"]
  /\ bytes' = [b \in Backends |-> None]
  /\ fd' = [b \in Backends |-> FALSE]
  /\ at' = [b \in Backends |-> 0]
  /\ loaded' = [b \in Backends |-> None]
  /\ alone' = [b \in Backends |-> TRUE]
  /\ opts' = [b \in Backends |-> None]
  /\ UNCHANGED <<remote, files>>

Step(b) ==
  \/ New(b) \/ LoadLocal(b) \/ Exists(b) \/ LoadCached(b) \/ Evict(b) \/ Download(b)
  \/ Create(b) \/ Write(b) \/ WriteError(b) \/ Load(b) \/ Discard(b)
  \/ Instantiate(b) \/ DropInstance(b)

Next == (\E b \in Backends : Step(b)) \/ AlterServer \/ Publish \/ Crash

Spec == Init /\ [][Next]_vars

-----------------------------------------------------------------------------
(* Properties. *)

\* The values the variables may take; who is in the middle of a file has what to
\* write into it.
TypeOK ==
  /\ server \in Servers /\ named \subseteq Servers
  /\ served \in [Releases -> Packages]
  /\ DOMAIN files \subseteq Keys /\ \A k \in DOMAIN files : files[k] \in Seq(Blocks)
  /\ pc \in [Backends -> {"idle", "local", "lookup", "cached", "evict", "download", "create",
                          "write", "load", "discard", "instantiate", "ready"}]
  /\ opts \in [Backends -> Servers \cup {None}]
  /\ bytes \in [Backends -> Blocks]
  /\ fd \in [Backends -> BOOLEAN]
  /\ at \in [Backends -> Nat] /\ \A b \in Backends : at[b] > 0 => bytes[b] # None
  /\ loaded \in [Backends -> Blocks]
  /\ alone \in [Backends -> BOOLEAN]

\* Whatever crashes, full disks and other backends left in the directory, what a
\* backend compiles from there is a package that the server once named, with its
\* checksum, for this very release.
LoadedWasNamed ==
  \A b \in Backends :
    loaded[b] # None /\ opts[b].release \notin Local =>
      [release |-> opts[b].release, checksum |-> loaded[b]] \in named

\* A file that is cut off or mixed up is repaired by the next backend that needs
\* it: when the package compiles, `new` only gives up with InvalidWasmComponent
\* if another backend changed the file meanwhile.
InvalidOnlyWhenDisturbed ==
  \A b \in Backends :
    pc[b] = "discard" /\ opts[b].checksum \in Components => ~alone[b]
=============================================================================
