------------------------------- MODULE HalFiles -------------------------------
(***************************************************************************)
(* Files and devices of the board support package: the registered devices  *)
(* and file systems, the pool of file descriptors, and the calls on them.  *)
(* A call changes the pool in one step; what it answers, errno included,   *)
(* is an operator of its own where nothing changes.  A callback of a       *)
(* driver may fail.  Descriptors are used as a program may use them: a     *)
(* negative one, or one that is open.  A name is the sequence of its       *)
(* components.                                                             *)
(***************************************************************************)
EXTENDS Integers, SequencesExt

CONSTANTS ALT_MAX_FD,
          ALT_STDIN, ALT_STDOUT, ALT_STDERR,    \* names
          Devices, FileSystems,                 \* what drivers may register
          Names, Modes,                         \* arguments of open
          NoDev

\* The device the pool starts with.
alt_dev_null == [name |-> <<"dev", "null">>, ops |-> {"write"}]
ASSUME FilesAssumption ==
  /\ ALT_MAX_FD \in Nat /\ ALT_MAX_FD > 3
  /\ \A d \in Devices \union FileSystems : d.name \in Seq(STRING) /\ d.ops \subseteq STRING
  /\ Devices \intersect FileSystems = {} /\ alt_dev_null \notin Devices \union FileSystems
  /\ Modes \subseteq {"O_RDONLY", "O_WRONLY", "O_RDWR"}
  /\ NoDev \notin Devices \union FileSystems \union {alt_dev_null}

VARIABLES alt_dev_list, alt_fs_list,     \* latest registration first
          alt_fd_list, alt_max_fd,
          redirected,                    \* the start-up code has set the standard streams
          handed                         \* descriptors open has given out, until close
lists == <<alt_dev_list, alt_fs_list>>
pool == <<alt_fd_list, alt_max_fd>>
vars == <<lists, pool, redirected, handed>>

Fd == 0..(ALT_MAX_FD - 1)
Stdio == 0..2
Flags == {"O_NONBLOCK", "ALT_FD_DEV", "ALT_FD_EXCL"}
Free == [dev |-> NoDev, acc |-> "O_RDONLY", flags |-> {}]
Open(f) == alt_fd_list[f].dev # NoDev

Init ==
  /\ alt_dev_list = <<alt_dev_null>> /\ alt_fs_list = <<>>
  /\ alt_fd_list = [f \in Fd |-> IF f \in Stdio THEN [Free EXCEPT !.dev = alt_dev_null] ELSE Free]
  /\ alt_max_fd = -1
  /\ redirected = FALSE /\ handed = {}

-----------------------------------------------------------------------------
(* Registration, by the start-up code. *)

alt_dev_reg(d) ==
  /\ ~redirected /\ ~Contains(alt_dev_list, d)
  /\ alt_dev_list' = <<d>> \o alt_dev_list
  /\ UNCHANGED <<alt_fs_list, pool, redirected, handed>>
alt_fs_reg(d) ==
  /\ ~redirected /\ ~Contains(alt_fs_list, d)
  /\ alt_fs_list' = <<d>> \o alt_fs_list
  /\ UNCHANGED <<alt_dev_list, pool, redirected, handed>>

\* The first in the list of those that match.
FirstIn(list, matches) == IF matches = {} THEN NoDev ELSE list[Min(matches)]

\* A device by its name; a file system by the components its name begins with.
alt_find_dev(name, list) == FirstIn(list, {i \in DOMAIN list : list[i].name = name})
alt_find_file(name) ==
  FirstIn(alt_fs_list, {i \in DOMAIN alt_fs_list : IsPrefix(alt_fs_list[i].name, name)})

-----------------------------------------------------------------------------
(* open, on a pool p = [list, max]. *)

thePool == [list |-> alt_fd_list, max |-> alt_max_fd]
SetPool(p) == alt_fd_list' = p.list /\ alt_max_fd' = p.max

\* Mutant of alt_release_fd: the device stays.
alt_release_fd_KeepsDev(list, f) == IF f > 2 THEN [list EXCEPT ![f].flags = {}] ELSE list
\* The standard descriptors are never given back.
alt_release_fd(list, f) == IF f > 2 THEN [list EXCEPT ![f] = Free] ELSE list

\* Does another descriptor hold the device for itself?
alt_file_locked(list, max, dev, f) ==
  \E i \in 0..max : i # f /\ list[i].dev = dev /\ "ALT_FD_EXCL" \in list[i].flags

\* The first free descriptor, and the mark of the highest one ever used.
alt_get_fd(p, dev) ==
  LET fd == Min({f \in Fd : p.list[f].dev = NoDev})
  IN  [fd |-> fd, list |-> [p.list EXCEPT ![fd].dev = dev], max |-> IF fd > p.max THEN fd ELSE p.max]

\* A descriptor, if the name is known, the device is not locked and its driver
\* agrees; whatever fails later gives it back.
Opened(p, name, acc, nonblock, fails) ==
  LET isdev == alt_find_dev(name, alt_dev_list) # NoDev
      dev == IF isdev THEN alt_find_dev(name, alt_dev_list) ELSE alt_find_file(name)
      got == alt_get_fd(p, dev)
      list == [got.list EXCEPT ![got.fd].acc = acc, ![got.fd].flags =
                 nonblock \union IF isdev THEN {"ALT_FD_DEV"} ELSE {}]
      refused == IF isdev /\ alt_file_locked(list, got.max, dev, got.fd) THEN "EACCES"
                 ELSE IF fails /\ "open" \in dev.ops THEN "driver" ELSE ""
      Answer(now, fd, error) == [pool |-> [list |-> now, max |-> got.max], fd |-> fd, error |-> error]
  IN  CASE dev = NoDev -> [pool |-> p, fd |-> -1, error |-> "ENODEV"]
        [] \A f \in Fd : p.list[f].dev # NoDev -> [pool |-> p, fd |-> -1, error |-> "EMFILE"]
        [] OTHER -> IF refused = "" THEN Answer(list, got.fd, "")
                    ELSE Answer(alt_release_fd(list, got.fd), -1, refused)

ALT_OPEN(name, acc, nonblock) ==
  /\ redirected
  /\ \E fails \in BOOLEAN :
       LET o == Opened(thePool, name, acc, nonblock, fails)
       IN  SetPool(o.pool) /\ handed' = handed \union IF o.fd < 0 THEN {} ELSE {o.fd}
  /\ UNCHANGED <<lists, redirected>>

\* Mutant of alt_open_fd: the access mode is not moved.
alt_open_fd_KeepsMode(p, f, name, acc, fails) ==
  LET o == Opened(p, name, acc, {}, fails)
  IN  IF o.fd < 0 THEN o.pool
      ELSE [o.pool EXCEPT !.list = alt_release_fd([@ EXCEPT ![f].dev = o.pool.list[o.fd].dev,
                                                            ![f].flags = o.pool.list[o.fd].flags], o.fd)]
\* Open, and move what was opened into a standard descriptor.
alt_open_fd(p, f, name, acc, fails) ==
  LET o == Opened(p, name, acc, {}, fails)
  IN  IF o.fd < 0 THEN o.pool
      ELSE [o.pool EXCEPT !.list = alt_release_fd([@ EXCEPT ![f] = o.pool.list[o.fd]], o.fd)]

alt_io_redirect ==
  /\ ~redirected /\ redirected' = TRUE
  /\ \E out, in, err \in BOOLEAN :
       LET p1 == alt_open_fd(thePool, 1, ALT_STDOUT, "O_WRONLY", out)
           p2 == alt_open_fd(p1, 0, ALT_STDIN, "O_RDONLY", in)
       IN  SetPool(alt_open_fd(p2, 2, ALT_STDERR, "O_WRONLY", err))
  /\ UNCHANGED <<lists, handed>>

-----------------------------------------------------------------------------
(* Calls on an open descriptor.  A callback that fails changes nothing here. *)

\* The driver is told, and the descriptor is free, whatever it answers.
ALT_CLOSE(f) ==
  /\ redirected /\ Open(f)
  /\ alt_fd_list' = alt_release_fd(alt_fd_list, f)
  /\ handed' = handed \ {f}
  /\ UNCHANGED <<lists, alt_max_fd, redirected>>

\* Refused if another descriptor is open on the device, but the search stops
\* before the highest descriptor ever used.
alt_fd_lock(f) ==
  IF \E i \in 0..(alt_max_fd - 1) : i # f /\ alt_fd_list[i].dev = alt_fd_list[f].dev
  THEN UNCHANGED alt_fd_list
  ELSE alt_fd_list' = [alt_fd_list EXCEPT ![f].flags = @ \union {"ALT_FD_EXCL"}]

alt_fd_unlock(f) == alt_fd_list' = [alt_fd_list EXCEPT ![f].flags = @ \ {"ALT_FD_EXCL"}]

\* Only a device can be locked; a file system is asked like a driver.
ALT_IOCTL(f, req) ==
  /\ redirected /\ Open(f)
  /\ IF "ALT_FD_DEV" \in alt_fd_list[f].flags
     THEN \/ req = "TIOCEXCL" /\ alt_fd_lock(f)
          \/ req = "TIOCNXCL" /\ alt_fd_unlock(f)
     ELSE UNCHANGED alt_fd_list
  /\ UNCHANGED <<lists, alt_max_fd, redirected, handed>>

\* Mutant of ALT_FCNTL: the other flags are cleared.
ALT_FCNTL_ReplacesFlags(f, nonblock) ==
  /\ redirected /\ Open(f)
  /\ alt_fd_list' = [alt_fd_list EXCEPT ![f].flags = nonblock]
  /\ UNCHANGED <<lists, alt_max_fd, redirected, handed>>
\* F_SETFL.
ALT_FCNTL(f, nonblock) ==
  /\ redirected /\ Open(f)
  /\ alt_fd_list' = [alt_fd_list EXCEPT ![f].flags = (@ \ {"O_NONBLOCK"}) \union nonblock]
  /\ UNCHANGED <<lists, alt_max_fd, redirected, handed>>

\* Open, look, close; with a name that cannot be opened the answer is that of a
\* bad descriptor.
ALT_STAT(name) ==
  /\ redirected
  /\ \E fails \in BOOLEAN :
       LET o == Opened(thePool, name, "O_RDONLY", {}, fails)
       IN  SetPool([o.pool EXCEPT !.list = alt_release_fd(@, o.fd)])
  /\ UNCHANGED <<lists, redirected, handed>>

-----------------------------------------------------------------------------
(* What the calls that change nothing may answer: what they return, where    *)
(* "-1" is that number and any other error its negated code, and what they    *)
(* leave in errno.  f < 0 is a bad descriptor.                                *)

Driver == {"done", "driver's error"}
\* The driver's result, or an error of the call's own.
Vectored(f, op, allowed, otherwise) ==
  IF f < 0 THEN {"EBADFD"}
  ELSE IF allowed /\ op \in alt_fd_list[f].dev.ops THEN Driver ELSE {otherwise}

\* Three ways to answer with a result: as it is; an error in errno as well; an
\* error in errno only.
AsItIs(rc) == [returns |-> rc, errno |-> "untouched"]
InBoth(rc) == [returns |-> rc, errno |-> IF rc = "done" THEN "untouched" ELSE rc]
InErrno(rc) == IF rc = "done" THEN AsItIs(rc) ELSE [returns |-> "-1", errno |-> rc]

ALT_READ(f) ==
  {InErrno(rc) : rc \in Vectored(f, "read", f >= 0 => alt_fd_list[f].acc # "O_WRONLY", "EACCES")}
ALT_WRITE(f) ==
  {InErrno(rc) : rc \in Vectored(f, "write", f >= 0 => alt_fd_list[f].acc # "O_RDONLY", "EACCES")}
ALT_LSEEK(f) == {InErrno(rc) : rc \in Vectored(f, "lseek", TRUE, "ENOTSUP")}
\* A request other than those for a lock.
IoctlAnswer(f) == {InBoth(rc) : rc \in Vectored(f, "ioctl", TRUE, "ENOTTY")}
ALT_FSTAT(f) == IF f < 0 THEN {InErrno("EBADFD")}
                ELSE {AsItIs(rc) : rc \in Vectored(f, "fstat", TRUE, "terminal")}
\* The answer of a driver's fstat is used even if it failed and gave none.
ALT_ISATTY(f) == IF f < 0 THEN {[returns |-> "no", errno |-> "EBADFD"]}
                 ELSE IF "fstat" \in alt_fd_list[f].dev.ops THEN {AsItIs("yes"), AsItIs("no")}
                 ELSE {AsItIs("yes")}

\* The same calls when the library is built to use drivers directly: a driver's
\* result is returned as it is.
DirectDriver(f, served) ==
  IF f \in served THEN {AsItIs(rc) : rc \in Driver} ELSE {InErrno("EBADFD")}
DirectRead(f) == DirectDriver(f, {0})
DirectWrite(f) == DirectDriver(f, {1, 2})
DirectIoctl(f) == DirectDriver(f, Stdio)
DirectFstat(f) == IF f \in Stdio THEN {AsItIs("terminal")} ELSE {AsItIs("-1")}
DirectIsatty(f) == IF f \in Stdio THEN {AsItIs("yes")} ELSE {AsItIs("no")}

-----------------------------------------------------------------------------
Registers == (\E d \in Devices : alt_dev_reg(d)) \/ (\E d \in FileSystems : alt_fs_reg(d))
NonBlock == {{}, {"O_NONBLOCK"}}
Next ==
  \/ Registers \/ alt_io_redirect
  \/ \E name \in Names : \/ ALT_STAT(name)
                         \/ \E acc \in Modes, nonblock \in NonBlock : ALT_OPEN(name, acc, nonblock)
  \/ \E f \in Fd : \/ ALT_CLOSE(f) \/ \E req \in {"TIOCEXCL", "TIOCNXCL"} : ALT_IOCTL(f, req)
                   \/ \E nonblock \in NonBlock : ALT_FCNTL(f, nonblock)
Spec == Init /\ [][Next]_vars
-----------------------------------------------------------------------------
\* Standard descriptors are always open, every other open one lies below the
\* mark that the searches for locks stop at, and only a device is ever locked.
TypeOK ==
  LET AllDevs == Devices \union FileSystems \union {alt_dev_null, NoDev}
  IN  /\ alt_fd_list \in [Fd -> [dev : AllDevs, acc : {"O_RDONLY", "O_WRONLY", "O_RDWR"},
                                 flags : SUBSET Flags]]
      /\ alt_max_fd \in (-1)..(ALT_MAX_FD - 1) /\ handed \subseteq Fd
      /\ \A f \in Fd : IF f \in Stdio THEN Open(f) ELSE Open(f) => f <= alt_max_fd
      /\ \A f \in Fd : "ALT_FD_EXCL" \in alt_fd_list[f].flags => "ALT_FD_DEV" \in alt_fd_list[f].flags

\* The open descriptors are exactly those a caller can close: an open that fails
\* half-way, a stat, and the start-up code's own opens leave none behind.
NothingLeaks == {f \in Fd \ Stdio : Open(f)} = handed

\* While a descriptor holds its device for itself, nobody else gets one for that
\* device, and nobody but its holder ends that: neither calls on other
\* descriptors nor a change of flags lose the lock.
Holds(f) == "ALT_FD_EXCL" \in alt_fd_list[f].flags
LockHolds ==
  [][\A f \in Fd : Holds(f) =>
       /\ \A g \in Fd \ {f} : alt_fd_list[g]'.dev = alt_fd_list[f].dev => alt_fd_list[g].dev = alt_fd_list[f].dev
       /\ Holds(f)' \/ ALT_IOCTL(f, "TIOCNXCL") \/ ALT_CLOSE(f)]_vars

\* To a program that uses only its standard streams, and these as they are meant,
\* the pool passes on what the direct build answers, once the streams are redirected
\* to the device named for them: no call is refused by one and served by the other.
\* They differ in how a driver's error is told.  The direct build returns its negative
\* code and leaves errno alone; the pool puts the code into errno, and its read and
\* write return -1 (alt_read.c:72 and 106, alt_write.c:78 and 119, alt_ioctl.c:88 and 163).
DirectIsPool ==
  /\ redirected /\ \A f \in Stdio : "ALT_FD_DEV" \in alt_fd_list[f].flags
  /\ "read" \in alt_fd_list[0].dev.ops
  /\ \A f \in {1, 2} : "write" \in alt_fd_list[f].dev.ops
  => /\ ALT_READ(0) = {InErrno(a.returns) : a \in DirectRead(0)}
     /\ \A f \in {1, 2} : ALT_WRITE(f) = {InErrno(a.returns) : a \in DirectWrite(f)}
     /\ \A f \in Stdio : "ioctl" \in alt_fd_list[f].dev.ops =>
          IoctlAnswer(f) = {InBoth(a.returns) : a \in DirectIoctl(f)}
     /\ \A f \in Stdio : "fstat" \notin alt_fd_list[f].dev.ops =>
          ALT_FSTAT(f) = DirectFstat(f) /\ ALT_ISATTY(f) = DirectIsatty(f)
=============================================================================
