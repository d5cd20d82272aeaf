--------------------------- MODULE HalFilesProofs ---------------------------
(***************************************************************************)
(* For every pool, every set of devices and file systems and every program *)
(* that uses the calls: descriptors do not leak, a device that is held     *)
(* stays held, and the direct build answers as the pool does.              *)
(***************************************************************************)
EXTENDS HalFiles, SequenceTheorems, WellFoundedInduction, TLAPS

-----------------------------------------------------------------------------
(* A pool of descriptors. *)

DevType == Devices \union {alt_dev_null}
AccType == {"O_RDONLY", "O_WRONLY", "O_RDWR"}
Entry == [dev : DevType \union FileSystems \union {NoDev}, acc : AccType, flags : SUBSET Flags]
Meant(f) == IF f = 0 THEN "O_RDONLY" ELSE "O_WRONLY"

\* A free descriptor is as the pool had it at the start, and none of the
\* standard ones is.  An open one lies below the mark, only a device can be
\* held, and a standard stream that was redirected has the mode meant for it.
EntryOK(list, max, f) ==
  /\ list[f].dev = NoDev => list[f] = Free /\ f \notin Stdio
  /\ f \notin Stdio /\ list[f].dev # NoDev => f <= max
  /\ "ALT_FD_EXCL" \in list[f].flags => "ALT_FD_DEV" \in list[f].flags
  /\ "ALT_FD_DEV" \in list[f].flags =>
       list[f].dev \in DevType /\ f <= max /\ (f \in Stdio => list[f].acc = Meant(f))

PoolOK(list, max) ==
  /\ list \in [Fd -> Entry] /\ max \in (-1)..(ALT_MAX_FD - 1)
  /\ \A f \in Fd : EntryOK(list, max, f)

Used(list) == {f \in Fd \ Stdio : list[f].dev # NoDev}

ListsTyped == alt_dev_list \in Seq(DevType) /\ alt_fs_list \in Seq(FileSystems)

LEMMA Sizes == ALT_MAX_FD \in Nat /\ ALT_MAX_FD > 3 /\ Stdio \subseteq Fd
  BY FilesAssumption DEF Stdio, Fd

\* No driver is taken for no driver, nor a file system for a device.
LEMMA Apart == NoDev \notin DevType \union FileSystems /\ DevType \intersect FileSystems = {}
  BY FilesAssumption DEF DevType

LEMMA FreeTyped == Free \in Entry /\ Free.dev = NoDev /\ Free.flags = {}
  BY DEF Free, Entry, AccType, Flags

\* A set of numbers that is not empty has a least one.
LEMMA Least ==
  ASSUME NEW S \in SUBSET Nat, S # {}
  PROVE  Min(S) \in S
  <1> DEFINE Below == {p \in Nat \X Nat : p[1] < p[2]}
  <1>1. IsWellFoundedOn(Below, Nat)
    BY NatLessThanWellFounded DEF OpToRel
  <1>2. PICK x \in S : \A y \in S : ~ (<<y, x>> \in Below)
    <2> HIDE DEF Below
    <2> QED BY <1>1, WFMin
  <1>3. ASSUME NEW y \in S, y < x PROVE FALSE
    <2>1. <<y, x>> \in Nat \X Nat /\ <<y, x>>[1] < <<y, x>>[2]
      BY <1>3
    <2>2. <<y, x>> \in Below
      BY ONLY <2>1
    <2> QED BY <1>2, <2>2
  <1>4. x \in S /\ \A y \in S : x <= y
    BY <1>3
  <1> HIDE DEF Below
  <1>5. \E z \in S : \A y \in S : z <= y
    BY ONLY <1>4
  <1> QED BY ONLY <1>5 DEF Min

\* A search finds a member of the list or nothing.
LEMMA Finds ==
  ASSUME NEW S, NEW list \in Seq(S), NEW matches \in SUBSET (DOMAIN list)
  PROVE  FirstIn(list, matches) \in S \union {NoDev}
  <1>1. DOMAIN list = 1..Len(list) /\ Len(list) \in Nat
    BY LenProperties
  <1>2. CASE matches # {}
    <2>1. Min(matches) \in matches
      BY <1>1, <1>2, Least
    <2>2. list[Min(matches)] \in S
      BY <1>1, <2>1, ElementOfSeq
    <2> QED BY <1>2, <2>2 DEF FirstIn
  <1> QED BY <1>2 DEF FirstIn

LEMMA Found ==
  ASSUME ListsTyped, NEW name
  PROVE  /\ alt_find_dev(name, alt_dev_list) \in DevType \union {NoDev}
         /\ alt_find_file(name) \in FileSystems \union {NoDev}
  BY Finds DEF ListsTyped, alt_find_dev, alt_find_file

\* The standard descriptors stay, the others are free again.
LEMMA Released ==
  ASSUME NEW list, NEW max, PoolOK(list, max), NEW f \in Int
  PROVE  /\ PoolOK(alt_release_fd(list, f), max)
         /\ Used(alt_release_fd(list, f)) = Used(list) \ {f}
         /\ \A g \in Fd : g # f \/ g \in Stdio => alt_release_fd(list, f)[g] = list[g]
         /\ f \in Fd \ Stdio => alt_release_fd(list, f)[f] = Free
  <1> DEFINE now == alt_release_fd(list, f)
  <1>1. CASE f > 2
    <2>1. now = [list EXCEPT ![f] = Free]
      BY <1>1 DEF alt_release_fd
    <2>2. list \in [Fd -> Entry] /\ f \notin Stdio
      BY <1>1 DEF PoolOK, Stdio
    <2> HIDE DEF now
    <2>3. now \in [Fd -> Entry] /\ \A g \in Fd : now[g] = IF g = f THEN Free ELSE list[g]
      BY <2>1, <2>2, FreeTyped
    <2>4. \A g \in Fd : EntryOK(now, max, g)
      BY <2>2, <2>3, FreeTyped DEF PoolOK, EntryOK
    <2>5. Used(now) = Used(list) \ {f}
      BY <2>2, <2>3, FreeTyped DEF Used
    <2>6. PoolOK(now, max)
      BY <2>3, <2>4 DEF PoolOK
    <2> QED BY <2>2, <2>3, <2>5, <2>6 DEF now
  <1>2. CASE ~(f > 2)
    <2>1. now = list
      BY <1>2 DEF alt_release_fd
    <2>2. f \notin Fd \ Stdio
      BY <1>2 DEF Fd, Stdio
    <2> QED BY <2>1, <2>2 DEF Used
  <1> QED BY <1>1, <1>2

-----------------------------------------------------------------------------
(* What open does. *)

\* It leaves all descriptors as they were, or it has given out one that was free
\* for a device nobody holds or for a file system.
Gives(list, max, o, acc) ==
  \/ o.fd = -1 /\ o.pool.list = list
  \/ /\ o.fd \in Fd \ Stdio /\ list[o.fd] = Free
     /\ o.pool.list \in [Fd -> Entry] /\ o.pool.list[o.fd].dev # NoDev
     /\ \A g \in Fd : g # o.fd => o.pool.list[g] = list[g]
     /\ o.pool.list[o.fd].acc = acc /\ "ALT_FD_EXCL" \notin o.pool.list[o.fd].flags
     /\ o.fd <= o.pool.max
     /\ "ALT_FD_DEV" \in o.pool.list[o.fd].flags =>
          /\ o.pool.list[o.fd].dev \in DevType
          /\ \A i \in 0..o.pool.max : i # o.fd /\ list[i].dev = o.pool.list[o.fd].dev
                                      => "ALT_FD_EXCL" \notin list[i].flags
     /\ "ALT_FD_DEV" \notin o.pool.list[o.fd].flags => o.pool.list[o.fd].dev \in FileSystems

LEMMA OpenGives ==
  ASSUME ListsTyped, NEW list, NEW max, PoolOK(list, max),
         NEW name, NEW acc \in AccType, NEW nonblock \in NonBlock, NEW fails \in BOOLEAN
  PROVE  LET o == Opened([list |-> list, max |-> max], name, acc, nonblock, fails)
         IN  /\ Gives(list, max, o, acc)
             /\ o.pool.max \in max..(ALT_MAX_FD - 1)
             /\ o.pool = [list |-> o.pool.list, max |-> o.pool.max]
  <1> DEFINE p == [list |-> list, max |-> max]
             o == Opened(p, name, acc, nonblock, fails)
             isdev == alt_find_dev(name, alt_dev_list) # NoDev
             dev == IF isdev THEN alt_find_dev(name, alt_dev_list) ELSE alt_find_file(name)
             got == alt_get_fd(p, dev)
             fd == Min({f \in Fd : list[f].dev = NoDev})
             flags == nonblock \union IF isdev THEN {"ALT_FD_DEV"} ELSE {}
             entry == [dev |-> dev, acc |-> acc, flags |-> flags]
             after == [list EXCEPT ![fd] = entry]
             top == IF fd > max THEN fd ELSE max
             locked == alt_file_locked(after, top, dev, fd)
  <1>1. list \in [Fd -> Entry] /\ max \in (-1)..(ALT_MAX_FD - 1)
    BY DEF PoolOK
  <1>2. /\ isdev => dev \in DevType
        /\ ~isdev /\ dev # NoDev => dev \in FileSystems
    BY Found
  <1>3. CASE dev = NoDev \/ \A f \in Fd : list[f].dev # NoDev
    <2>1. o.pool = p /\ o.fd = -1
      BY <1>3 DEF Opened
    <2> QED BY <1>1, <2>1, Sizes DEF Gives
  <1>4. CASE ~(dev = NoDev \/ \A f \in Fd : list[f].dev # NoDev)
    <2>1. fd \in Fd /\ list[fd].dev = NoDev
      <3>1. {f \in Fd : list[f].dev = NoDev} \in SUBSET Nat
        BY Sizes DEF Fd
      <3> QED BY <1>4, <3>1, Least
    <2>2. list[fd] = Free /\ fd \notin Stdio /\ fd > 2
      <3>1. list[fd] = Free /\ fd \notin Stdio
        BY <2>1 DEF PoolOK, EntryOK
      <3> QED BY <2>1, <3>1, Sizes DEF Stdio, Fd
    <2> HIDE DEF fd
    <2>3. /\ got.fd = fd /\ got.max = top
          /\ [got.list EXCEPT ![got.fd].acc = acc, ![got.fd].flags = flags] = after
      <3>1. got = [fd |-> fd, list |-> [list EXCEPT ![fd].dev = dev], max |-> top]
        BY DEF alt_get_fd, fd
      <3>2. [[list EXCEPT ![fd].dev = dev] EXCEPT ![fd].acc = acc, ![fd].flags = flags] = after
        <4> DEFINE named == [list EXCEPT ![fd].dev = dev]
                   set == [named EXCEPT ![fd].acc = acc, ![fd].flags = flags]
        <4> HIDE DEF dev, flags, fd
        <4>1. named = [list EXCEPT ![fd] = [dev |-> dev, acc |-> "O_RDONLY", flags |-> {}]]
          <5>1. [list[fd] EXCEPT !.dev = dev] = [dev |-> dev, acc |-> "O_RDONLY", flags |-> {}]
            BY <2>2 DEF Free
          <5>2. named = [list EXCEPT ![fd] = [list[fd] EXCEPT !.dev = dev]]
            BY <1>1, <2>1
          <5> QED BY <5>1, <5>2
        <4> HIDE DEF named
        <4>2. /\ DOMAIN named = Fd /\ named[fd] = [dev |-> dev, acc |-> "O_RDONLY", flags |-> {}]
              /\ \A g \in Fd : g # fd => named[g] = list[g]
          BY <1>1, <2>1, <4>1
        <4>3. set = [named EXCEPT ![fd] = [[named[fd] EXCEPT !.acc = acc] EXCEPT !.flags = flags]]
          BY <2>1, <4>2
        <4>4. [[named[fd] EXCEPT !.acc = acc] EXCEPT !.flags = flags] = entry
          <5> DEFINE first == [dev |-> dev, acc |-> "O_RDONLY", flags |-> {}]
                     second == [dev |-> dev, acc |-> acc, flags |-> {}]
          <5>1. [first EXCEPT !.acc = acc] = second
            OBVIOUS
          <5>2. [second EXCEPT !.flags = flags] = entry
            OBVIOUS
          <5>3. named[fd] = first
            BY <4>2
          <5> HIDE DEF first, second, entry
          <5> QED BY ONLY <5>1, <5>2, <5>3
        <4> HIDE DEF set, entry
        <4>5. set = [named EXCEPT ![fd] = entry]
          BY <4>3, <4>4
        <4>6. set = [list EXCEPT ![fd] = entry]
          BY <1>1, <2>1, <4>2, <4>5
        <4> QED BY <4>6 DEF set, named
      <3> QED BY <3>1, <3>2
    <2>4. top \in max..(ALT_MAX_FD - 1) /\ fd <= top
      BY <1>1, <2>1, Sizes DEF Fd
    <2>5. entry \in Entry /\ entry.dev # NoDev /\ "ALT_FD_EXCL" \notin flags
          /\ (isdev <=> "ALT_FD_DEV" \in flags)
      BY <1>2, <1>4 DEF Entry, NonBlock, Flags
    <2>6. after \in [Fd -> Entry] /\ after[fd] = entry /\ \A g \in Fd : g # fd => after[g] = list[g]
      BY <1>1, <2>1, <2>5
    <2>7. CASE o = [pool |-> [list |-> after, max |-> top], fd |-> fd, error |-> ""]
               /\ ~(isdev /\ locked)
      <3> HIDE DEF o
      <3>1. /\ o.fd = fd /\ o.pool.list = after /\ o.pool.max = top
            /\ o.pool = [list |-> o.pool.list, max |-> o.pool.max]
        BY ONLY <2>7
      <3>2. isdev => \A i \in 0..top : i # fd /\ list[i].dev = dev => "ALT_FD_EXCL" \notin list[i].flags
        <4> HIDE DEF isdev, dev, top, after
        <4>1. \A i \in 0..top : i \in Fd
          BY <1>1, <2>4, Sizes DEF Fd
        <4>2. isdev => \A i \in 0..top : i # fd /\ after[i].dev = dev => "ALT_FD_EXCL" \notin after[i].flags
          BY ONLY <2>7 DEF locked, alt_file_locked
        <4> QED BY ONLY <2>6, <4>1, <4>2
      <3>3. entry.dev = dev /\ entry.acc = acc /\ entry.flags = flags
        OBVIOUS
      <3> HIDE DEF isdev, dev, top, after, entry, flags
      <3>4. "ALT_FD_DEV" \in flags => isdev /\ dev \in DevType
        BY <1>2, <2>5
      <3>5. "ALT_FD_DEV" \notin flags => dev \in FileSystems
        BY <1>2, <2>5, <3>3
      <3>6. \A g \in Fd : g # fd => after[g] = list[g]
        BY <2>6
      <3>7. Gives(list, max, o, acc)
        BY ONLY <2>1, <2>2, <2>4, <2>5, <2>6, <3>1, <3>2, <3>3, <3>4, <3>5, <3>6 DEF Gives
      <3> QED BY ONLY <2>4, <3>1, <3>7 DEF o, p
    <2>8. CASE o.fd = -1 /\ o.pool = [list |-> alt_release_fd(after, fd), max |-> top]
      <3>1. alt_release_fd(after, fd) = list
        BY <1>1, <2>1, <2>2, <2>6 DEF alt_release_fd
      <3> QED BY <2>4, <2>8, <3>1 DEF Gives
    <2>9. \/ o = [pool |-> [list |-> after, max |-> top], fd |-> fd, error |-> ""] /\ ~(isdev /\ locked)
          \/ o.fd = -1 /\ o.pool = [list |-> alt_release_fd(after, fd), max |-> top]
      <3> HIDE DEF after, top
      <3> QED BY <1>4, <2>3 DEF Opened
    <2> QED BY <2>7, <2>8, <2>9
  <1> QED BY <1>3, <1>4

\* What it gives out is the only change to the pool.
LEMMA GivesPool ==
  ASSUME NEW list, NEW max, PoolOK(list, max), NEW o, NEW acc, Gives(list, max, o, acc),
         o.pool.max \in max..(ALT_MAX_FD - 1)
  PROVE  /\ PoolOK(o.pool.list, o.pool.max)
         /\ o.fd = -1 \/ o.fd \in Fd \ Stdio
         /\ Used(o.pool.list) = Used(list) \union IF o.fd < 0 THEN {} ELSE {o.fd}
         /\ Used(list) = Used(o.pool.list) \ {o.fd}
  <1> DEFINE now == o.pool.list
             top == o.pool.max
             fd == o.fd
  <1> HIDE DEF now, top, fd
  <1>1. list \in [Fd -> Entry] /\ max \in (-1)..(ALT_MAX_FD - 1) /\ \A g \in Fd : EntryOK(list, max, g)
    BY DEF PoolOK
  <1>2. top \in max..(ALT_MAX_FD - 1)
    BY DEF top
  <1>3. top \in (-1)..(ALT_MAX_FD - 1) /\ max <= top
    BY <1>1, <1>2, Sizes
  <1>4. \A g \in Fd : EntryOK(list, top, g)
    BY <1>1, <1>3, Sizes DEF EntryOK, Fd
  <1>5. CASE fd = -1 /\ now = list
    <2>1. Used(list) = Used(list) \ {-1}
      BY Sizes DEF Used, Fd
    <2>2. PoolOK(now, top)
      BY <1>1, <1>3, <1>4, <1>5 DEF PoolOK
    <2> QED BY <1>5, <2>1, <2>2 DEF now, top, fd
  <1>6. CASE ~(fd = -1 /\ now = list)
    <2>1. /\ fd \in Fd \ Stdio /\ list[fd] = Free
          /\ now \in [Fd -> Entry] /\ now[fd].dev # NoDev
          /\ \A g \in Fd : g # fd => now[g] = list[g]
          /\ "ALT_FD_EXCL" \notin now[fd].flags /\ fd <= top
          /\ "ALT_FD_DEV" \in now[fd].flags => now[fd].dev \in DevType
      BY <1>6 DEF Gives, now, top, fd
    <2>2. \A g \in Fd : EntryOK(now, top, g)
      BY <1>4, <2>1 DEF EntryOK
    <2>3. PoolOK(now, top)
      BY <1>3, <2>1, <2>2 DEF PoolOK
    <2>4. Used(now) = Used(list) \union {fd} /\ fd \notin Used(list)
      BY <2>1, FreeTyped DEF Used
    <2>5. Used(list) = Used(now) \ {fd} /\ ~(fd < 0)
      BY <2>1, <2>4, Sizes DEF Fd
    <2> QED BY <2>1, <2>3, <2>4, <2>5 DEF now, top, fd
  <1> QED BY <1>5, <1>6

\* A standard stream that is opened anew keeps nothing else open.
LEMMA Redirects ==
  ASSUME ListsTyped, NEW list, NEW max, PoolOK(list, max),
         NEW f \in Stdio, NEW name, NEW fails \in BOOLEAN
  PROVE  LET q == alt_open_fd([list |-> list, max |-> max], f, name, Meant(f), fails)
         IN  /\ PoolOK(q.list, q.max) /\ Used(q.list) = Used(list)
             /\ q = [list |-> q.list, max |-> q.max]
  <1> DEFINE o == Opened([list |-> list, max |-> max], name, Meant(f), {}, fails)
             q == alt_open_fd([list |-> list, max |-> max], f, name, Meant(f), fails)
             now == o.pool.list
             moved == [now EXCEPT ![f] = now[o.fd]]
             top == o.pool.max
  <1>1. /\ Gives(list, max, o, Meant(f)) /\ top \in max..(ALT_MAX_FD - 1)
        /\ o.pool = [list |-> now, max |-> top]
    <2>1. Meant(f) \in AccType /\ {} \in NonBlock
      BY DEF Meant, AccType, NonBlock
    <2> HIDE DEF Gives
    <2> QED BY <2>1, OpenGives
  <1>2. /\ PoolOK(now, top) /\ (o.fd = -1 \/ o.fd \in Fd \ Stdio)
        /\ Used(list) = Used(now) \ {o.fd}
    BY <1>1, GivesPool
  <1>3. CASE o.fd = -1
    <2>1. q = o.pool
      BY <1>3 DEF alt_open_fd
    <2>2. Used(list) = Used(now)
      BY <1>1, <1>3, Sizes DEF Gives, Fd
    <2> HIDE DEF o, q
    <2> QED BY <1>1, <1>2, <2>1, <2>2 DEF q
  <1>4. CASE o.fd \in Fd \ Stdio
    <2>1. q = [o.pool EXCEPT !.list = alt_release_fd(moved, o.fd)]
      BY <1>4, Sizes DEF alt_open_fd, Fd
    <2> HIDE DEF o
    <2>2. q.list = alt_release_fd(moved, o.fd) /\ q.max = top /\ q = [list |-> q.list, max |-> q.max]
      <3>1. q = [list |-> alt_release_fd(moved, o.fd), max |-> top]
        <4> HIDE DEF q, moved
        <4> QED BY <1>1, <2>1
      <3> HIDE DEF q
      <3> QED BY <3>1
    <2> HIDE DEF q
    <2>3. f \in Fd /\ f # o.fd /\ now \in [Fd -> Entry]
      BY <1>2, <1>4, Sizes DEF PoolOK
    <2>4. moved \in [Fd -> Entry] /\ moved[f] = now[o.fd] /\ \A g \in Fd : g # f => moved[g] = now[g]
      BY <2>3, <1>4
    <2>5. PoolOK(moved, top)
      <3>1. /\ now[o.fd].dev # NoDev /\ now[o.fd].acc = Meant(f) /\ f <= top
            /\ "ALT_FD_EXCL" \notin now[o.fd].flags
            /\ "ALT_FD_DEV" \in now[o.fd].flags => now[o.fd].dev \in DevType
        <4>1. ~(o.fd = -1 /\ o.pool.list = list)
          BY <1>4, Sizes DEF Fd
        <4>2. /\ now[o.fd].dev # NoDev /\ now[o.fd].acc = Meant(f) /\ o.fd <= top
              /\ "ALT_FD_EXCL" \notin now[o.fd].flags
              /\ "ALT_FD_DEV" \in now[o.fd].flags => now[o.fd].dev \in DevType
          BY <1>1, <4>1 DEF Gives
        <4>3. f <= o.fd /\ top \in Int /\ o.fd \in Int /\ f \in Int
          BY <1>2, <1>4, Sizes DEF Stdio, Fd, PoolOK
        <4> QED BY <4>2, <4>3
      <3> HIDE DEF moved, now, top
      <3>2. \A g \in Fd : EntryOK(moved, top, g)
        BY <1>2, <2>3, <2>4, <3>1 DEF EntryOK, PoolOK
      <3> QED BY <1>2, <2>4, <3>2 DEF PoolOK
    <2>6. Used(moved) = Used(now)
      BY <2>3, <2>4 DEF Used
    <2>7. o.fd \in Int
      BY <1>4, Sizes DEF Fd
    <2> HIDE DEF moved, now, top
    <2>8. /\ PoolOK(alt_release_fd(moved, o.fd), top)
          /\ Used(alt_release_fd(moved, o.fd)) = Used(moved) \ {o.fd}
      BY <2>5, <2>7, Released
    <2>9. PoolOK(q.list, q.max) /\ Used(q.list) = Used(list)
      BY <1>2, <2>2, <2>6, <2>8
    <2> QED BY <2>2, <2>9 DEF q
  <1> QED BY <1>2, <1>3, <1>4

-----------------------------------------------------------------------------
(* The inductive invariant.  What NothingLeaks says must be said of the pool  *)
(* as a whole, and that a descriptor is held below the mark is what makes a   *)
(* later open find the lock.                                                  *)

IInv ==
  /\ ListsTyped
  /\ PoolOK(alt_fd_list, alt_max_fd)
  /\ handed = Used(alt_fd_list)
  /\ ~redirected => \A f \in Fd : alt_fd_list[f].flags = {}

\* What LockHolds says of a step.
Kept ==
  \A f \in Fd : Holds(f) =>
    /\ \A g \in Fd \ {f} : alt_fd_list[g]'.dev = alt_fd_list[f].dev => alt_fd_list[g].dev = alt_fd_list[f].dev
    /\ Holds(f)' \/ ALT_IOCTL(f, "TIOCNXCL") \/ ALT_CLOSE(f)

LEMMA InitIInv == Init => IInv
  <1> SUFFICES ASSUME Init PROVE IInv
    OBVIOUS
  <1>1. ListsTyped
    <2>1. <<alt_dev_null>> \in Seq(DevType) /\ << >> \in Seq(FileSystems)
      BY DEF DevType
    <2> QED BY <2>1 DEF Init, ListsTyped
  <1>2. /\ \A f \in Fd : alt_fd_list[f] = IF f \in Stdio THEN [Free EXCEPT !.dev = alt_dev_null] ELSE Free
        /\ alt_max_fd = -1
    BY DEF Init
  <1>3. [Free EXCEPT !.dev = alt_dev_null] = [dev |-> alt_dev_null, acc |-> "O_RDONLY", flags |-> {}]
    BY DEF Free
  <1> DEFINE first == [dev |-> alt_dev_null, acc |-> "O_RDONLY", flags |-> {}]
  <1>4. first \in Entry /\ first.dev # NoDev /\ first.flags = {}
    BY Apart DEF Entry, DevType, AccType, Flags
  <1> HIDE DEF first
  <1>5. \A f \in Fd : alt_fd_list[f] = IF f \in Stdio THEN first ELSE Free
    BY <1>2, <1>3 DEF first
  <1>6. alt_fd_list \in [Fd -> Entry]
    BY <1>4, <1>5, FreeTyped DEF Init
  <1>7. \A f \in Fd : EntryOK(alt_fd_list, alt_max_fd, f)
    BY <1>4, <1>5, FreeTyped DEF EntryOK
  <1>8. PoolOK(alt_fd_list, alt_max_fd)
    BY <1>2, <1>6, <1>7, Sizes DEF PoolOK
  <1>9. Used(alt_fd_list) = {}
    BY <1>5, FreeTyped DEF Used
  <1>10. \A f \in Fd : alt_fd_list[f].flags = {}
    BY <1>4, <1>5, FreeTyped
  <1> QED BY <1>1, <1>8, <1>9, <1>10 DEF Init, IInv

LEMMA RegistersStep == IInv /\ Registers => IInv' /\ Kept
  <1> SUFFICES ASSUME IInv, Registers PROVE IInv' /\ Kept
    OBVIOUS
  <1>1. UNCHANGED <<alt_fd_list, alt_max_fd, redirected, handed>>
    BY DEF Registers, alt_dev_reg, alt_fs_reg, pool
  <1>2. ListsTyped'
    <2>1. CASE \E d \in Devices : alt_dev_reg(d)
      <3>1. PICK d \in Devices : alt_dev_reg(d)
        BY <2>1
      <3>2. <<d>> \in Seq(DevType) /\ alt_dev_list \in Seq(DevType)
        BY DEF DevType, IInv, ListsTyped
      <3>3. <<d>> \o alt_dev_list \in Seq(DevType)
        BY <3>2, ConcatProperties
      <3> QED BY <3>1, <3>3 DEF alt_dev_reg, ListsTyped, IInv
    <2>2. CASE \E d \in FileSystems : alt_fs_reg(d)
      <3>1. PICK d \in FileSystems : alt_fs_reg(d)
        BY <2>2
      <3>2. <<d>> \in Seq(FileSystems) /\ alt_fs_list \in Seq(FileSystems)
        BY DEF IInv, ListsTyped
      <3>3. <<d>> \o alt_fs_list \in Seq(FileSystems)
        BY <3>2, ConcatProperties
      <3> QED BY <3>1, <3>3 DEF alt_fs_reg, ListsTyped, IInv
    <2> QED BY <2>1, <2>2 DEF Registers
  <1> QED BY <1>1, <1>2 DEF IInv, PoolOK, EntryOK, Used, Kept, Holds

\* Nobody holds a device before the streams are redirected.
LEMMA RedirectStep == IInv /\ alt_io_redirect => IInv' /\ Kept
  <1> SUFFICES ASSUME IInv, alt_io_redirect PROVE IInv' /\ Kept
    OBVIOUS
  <1>1. PICK out \in BOOLEAN, in \in BOOLEAN, err \in BOOLEAN :
          SetPool(alt_open_fd(alt_open_fd(alt_open_fd(thePool, 1, ALT_STDOUT, "O_WRONLY", out),
                                          0, ALT_STDIN, "O_RDONLY", in),
                              2, ALT_STDERR, "O_WRONLY", err))
    BY DEF alt_io_redirect
  <1> DEFINE p1 == alt_open_fd(thePool, 1, ALT_STDOUT, Meant(1), out)
             p2 == alt_open_fd(p1, 0, ALT_STDIN, Meant(0), in)
             p3 == alt_open_fd(p2, 2, ALT_STDERR, Meant(2), err)
  <1>2. Meant(0) = "O_RDONLY" /\ Meant(1) = "O_WRONLY" /\ Meant(2) = "O_WRONLY"
        /\ 0 \in Stdio /\ 1 \in Stdio /\ 2 \in Stdio
    BY DEF Meant, Stdio
  <1>3. SetPool(p3)
    BY <1>1, <1>2
  <1>4. /\ ListsTyped /\ PoolOK(alt_fd_list, alt_max_fd) /\ handed = Used(alt_fd_list)
        /\ thePool = [list |-> alt_fd_list, max |-> alt_max_fd]
    BY DEF IInv, thePool
  <1>5. PoolOK(p1.list, p1.max) /\ Used(p1.list) = handed /\ p1 = [list |-> p1.list, max |-> p1.max]
    BY <1>2, <1>4, Redirects
  <1> HIDE DEF p1
  <1>6. PoolOK(p2.list, p2.max) /\ Used(p2.list) = handed /\ p2 = [list |-> p2.list, max |-> p2.max]
    <2>1. p2 = alt_open_fd([list |-> p1.list, max |-> p1.max], 0, ALT_STDIN, Meant(0), in)
      BY <1>5
    <2> HIDE DEF p2
    <2> DEFINE list == p1.list
               max == p1.max
    <2> HIDE DEF list, max
    <2>2. ListsTyped /\ PoolOK(list, max) /\ Used(list) = handed
      BY <1>4, <1>5 DEF list, max
    <2>3. p2 = alt_open_fd([list |-> list, max |-> max], 0, ALT_STDIN, Meant(0), in)
      BY <2>1 DEF list, max
    <2> QED BY <1>2, <2>2, <2>3, Redirects
  <1> HIDE DEF p2
  <1>7. PoolOK(p3.list, p3.max) /\ Used(p3.list) = handed /\ p3 = [list |-> p3.list, max |-> p3.max]
    <2>1. p3 = alt_open_fd([list |-> p2.list, max |-> p2.max], 2, ALT_STDERR, Meant(2), err)
      BY <1>6
    <2> HIDE DEF p3
    <2> DEFINE list == p2.list
               max == p2.max
    <2> HIDE DEF list, max
    <2>2. ListsTyped /\ PoolOK(list, max) /\ Used(list) = handed
      BY <1>4, <1>6 DEF list, max
    <2>3. p3 = alt_open_fd([list |-> list, max |-> max], 2, ALT_STDERR, Meant(2), err)
      BY <2>1 DEF list, max
    <2> HIDE DEF p3
    <2> QED BY <1>2, <2>2, <2>3, Redirects
  <1> HIDE DEF p3
  <1>8. alt_fd_list' = p3.list /\ alt_max_fd' = p3.max
    BY <1>3 DEF SetPool
  <1>9. /\ ~redirected /\ redirected' = TRUE /\ handed' = handed
        /\ alt_dev_list' = alt_dev_list /\ alt_fs_list' = alt_fs_list
    BY DEF alt_io_redirect, lists
  <1>10. PoolOK(alt_fd_list, alt_max_fd)'
    BY <1>7, <1>8 DEF PoolOK, EntryOK
  <1>11. handed' = Used(alt_fd_list)'
    BY <1>7, <1>8, <1>9 DEF Used
  <1>12. Kept
    BY <1>9 DEF Kept, Holds, IInv
  <1> QED BY <1>4, <1>9, <1>10, <1>11, <1>12 DEF IInv, ListsTyped

LEMMA OpenStep ==
  ASSUME IInv, NEW name, NEW acc \in Modes, NEW nonblock \in NonBlock, ALT_OPEN(name, acc, nonblock)
  PROVE  IInv' /\ Kept
  <1>1. PICK fails \in BOOLEAN :
          LET o == Opened(thePool, name, acc, nonblock, fails)
          IN  SetPool(o.pool) /\ handed' = handed \union IF o.fd < 0 THEN {} ELSE {o.fd}
    BY DEF ALT_OPEN
  <1> DEFINE o == Opened(thePool, name, acc, nonblock, fails)
  <1>2. /\ ListsTyped /\ PoolOK(alt_fd_list, alt_max_fd) /\ handed = Used(alt_fd_list)
        /\ thePool = [list |-> alt_fd_list, max |-> alt_max_fd] /\ acc \in AccType
    BY FilesAssumption DEF IInv, thePool, AccType
  <1>3. Gives(alt_fd_list, alt_max_fd, o, acc) /\ o.pool.max \in alt_max_fd..(ALT_MAX_FD - 1)
    <2> HIDE DEF Gives
    <2> QED BY <1>2, OpenGives
  <1>4. /\ alt_fd_list' = o.pool.list /\ alt_max_fd' = o.pool.max
        /\ handed' = handed \union IF o.fd < 0 THEN {} ELSE {o.fd}
    BY <1>1 DEF SetPool
  <1> HIDE DEF o
  <1>5. /\ PoolOK(o.pool.list, o.pool.max) /\ (o.fd = -1 \/ o.fd \in Fd \ Stdio)
        /\ Used(o.pool.list) = Used(alt_fd_list) \union IF o.fd < 0 THEN {} ELSE {o.fd}
    BY <1>2, <1>3, GivesPool
  <1>6. IInv'
    <2>1. redirected' /\ alt_dev_list' = alt_dev_list /\ alt_fs_list' = alt_fs_list
      BY DEF ALT_OPEN, lists
    <2>2. PoolOK(alt_fd_list, alt_max_fd)'
      BY <1>4, <1>5 DEF PoolOK, EntryOK
    <2>3. handed' = Used(alt_fd_list)'
      BY <1>2, <1>4, <1>5 DEF Used
    <2> QED BY <1>2, <2>1, <2>2, <2>3 DEF IInv, ListsTyped
  <1>7. Kept
    <2> SUFFICES ASSUME NEW f \in Fd, Holds(f)
                 PROVE  /\ \A g \in Fd \ {f} : alt_fd_list[g]'.dev = alt_fd_list[f].dev
                                               => alt_fd_list[g].dev = alt_fd_list[f].dev
                        /\ Holds(f)'
      BY DEF Kept
    <2>1. CASE o.fd = -1 /\ o.pool.list = alt_fd_list
      BY <1>4, <2>1 DEF Holds
    <2>2. CASE ~(o.fd = -1 /\ o.pool.list = alt_fd_list)
      <3>1. /\ o.fd \in Fd \ Stdio /\ alt_fd_list[o.fd] = Free
            /\ \A g \in Fd : g # o.fd => alt_fd_list'[g] = alt_fd_list[g]
            /\ "ALT_FD_DEV" \in alt_fd_list'[o.fd].flags =>
                 \A i \in 0..alt_max_fd' : i # o.fd /\ alt_fd_list[i].dev = alt_fd_list'[o.fd].dev
                                            => "ALT_FD_EXCL" \notin alt_fd_list[i].flags
            /\ "ALT_FD_DEV" \notin alt_fd_list'[o.fd].flags => alt_fd_list'[o.fd].dev \in FileSystems
        BY <1>3, <1>4, <2>2 DEF Gives
      <3>2. "ALT_FD_EXCL" \in alt_fd_list[f].flags /\ alt_fd_list[f].dev \in DevType /\ f <= alt_max_fd
        BY <1>2 DEF Holds, PoolOK, EntryOK
      <3>3. f # o.fd
        BY <3>1, <3>2, FreeTyped
      <3>4. f \in 0..alt_max_fd'
        BY <1>2, <1>3, <1>4, <3>2, Sizes DEF PoolOK, Fd
      <3>5. alt_fd_list'[o.fd].dev # alt_fd_list[f].dev
        BY <3>1, <3>2, <3>3, <3>4, Apart
      <3> QED BY <3>1, <3>2, <3>3, <3>5 DEF Holds
    <2> QED BY <2>1, <2>2
  <1> QED BY <1>6, <1>7

\* What stat opens it closes again.
LEMMA StatStep ==
  ASSUME IInv, NEW name, ALT_STAT(name)
  PROVE  IInv' /\ Kept
  <1>1. PICK fails \in BOOLEAN :
          LET o == Opened(thePool, name, "O_RDONLY", {}, fails)
          IN  SetPool([o.pool EXCEPT !.list = alt_release_fd(@, o.fd)])
    BY DEF ALT_STAT
  <1> DEFINE o == Opened(thePool, name, "O_RDONLY", {}, fails)
             now == alt_release_fd(o.pool.list, o.fd)
  <1>2. /\ ListsTyped /\ PoolOK(alt_fd_list, alt_max_fd) /\ handed = Used(alt_fd_list)
        /\ thePool = [list |-> alt_fd_list, max |-> alt_max_fd]
    BY DEF IInv, thePool
  <1>3. /\ Gives(alt_fd_list, alt_max_fd, o, "O_RDONLY") /\ o.pool.max \in alt_max_fd..(ALT_MAX_FD - 1)
        /\ o.pool = [list |-> o.pool.list, max |-> o.pool.max]
    <2>1. "O_RDONLY" \in AccType /\ {} \in NonBlock
      BY DEF AccType, NonBlock
    <2> HIDE DEF Gives
    <2> QED BY <1>2, <2>1, OpenGives
  <1>4. SetPool([o.pool EXCEPT !.list = alt_release_fd(@, o.fd)])
    BY <1>1
  <1> HIDE DEF o
  <1>5. alt_fd_list' = now /\ alt_max_fd' = o.pool.max
    BY <1>3, <1>4 DEF SetPool
  <1>6. /\ PoolOK(o.pool.list, o.pool.max) /\ (o.fd = -1 \/ o.fd \in Fd \ Stdio)
        /\ Used(alt_fd_list) = Used(o.pool.list) \ {o.fd}
    BY <1>2, <1>3, GivesPool
  <1>7. o.fd \in Int
    BY <1>6, Sizes DEF Fd
  <1>8. /\ PoolOK(now, o.pool.max) /\ Used(now) = Used(o.pool.list) \ {o.fd}
        /\ \A g \in Fd : g # o.fd => now[g] = o.pool.list[g]
        /\ o.fd \in Fd \ Stdio => now[o.fd] = Free
    BY <1>6, <1>7, Released
  <1>9. \A g \in Fd : now[g] = alt_fd_list[g]
    <2> HIDE DEF now
    <2>1. CASE o.fd = -1 /\ o.pool.list = alt_fd_list
      BY <1>8, <2>1, Sizes DEF Fd
    <2>2. CASE ~(o.fd = -1 /\ o.pool.list = alt_fd_list)
      BY <1>3, <1>8, <2>2 DEF Gives
    <2> QED BY <2>1, <2>2
  <1> HIDE DEF now
  <1>10. /\ redirected' /\ alt_dev_list' = alt_dev_list /\ alt_fs_list' = alt_fs_list
         /\ handed' = handed
    BY DEF ALT_STAT, lists
  <1>11. PoolOK(alt_fd_list, alt_max_fd)'
    BY <1>5, <1>8 DEF PoolOK, EntryOK
  <1>12. handed' = Used(alt_fd_list)'
    BY <1>2, <1>5, <1>6, <1>8, <1>10 DEF Used
  <1>13. Kept
    BY <1>5, <1>9 DEF Kept, Holds
  <1> QED BY <1>2, <1>10, <1>11, <1>12, <1>13 DEF IInv, ListsTyped

LEMMA CloseStep ==
  ASSUME IInv, NEW h \in Fd, ALT_CLOSE(h)
  PROVE  IInv' /\ Kept
  <1> DEFINE now == alt_release_fd(alt_fd_list, h)
  <1>1. /\ ListsTyped /\ PoolOK(alt_fd_list, alt_max_fd) /\ handed = Used(alt_fd_list) /\ h \in Int
    BY Sizes DEF IInv, Fd
  <1>2. /\ PoolOK(now, alt_max_fd) /\ Used(now) = Used(alt_fd_list) \ {h}
        /\ \A g \in Fd : g # h \/ g \in Stdio => now[g] = alt_fd_list[g]
        /\ h \in Fd \ Stdio => now[h] = Free
    BY <1>1, Released
  <1>3. /\ alt_fd_list' = now /\ alt_max_fd' = alt_max_fd /\ handed' = handed \ {h} /\ redirected'
        /\ alt_dev_list' = alt_dev_list /\ alt_fs_list' = alt_fs_list
    BY DEF ALT_CLOSE, lists
  <1> HIDE DEF now
  <1>4. PoolOK(alt_fd_list, alt_max_fd)'
    BY <1>2, <1>3 DEF PoolOK, EntryOK
  <1>5. handed' = Used(alt_fd_list)'
    BY <1>1, <1>2, <1>3 DEF Used
  <1>6. Kept
    <2> SUFFICES ASSUME NEW f \in Fd, Holds(f)
                 PROVE  /\ \A g \in Fd \ {f} : alt_fd_list[g]'.dev = alt_fd_list[f].dev
                                               => alt_fd_list[g].dev = alt_fd_list[f].dev
                        /\ Holds(f)' \/ ALT_CLOSE(f)
      BY DEF Kept
    <2>1. alt_fd_list[f].dev \in DevType
      BY <1>1 DEF Holds, PoolOK, EntryOK
    <2>2. \A g \in Fd : alt_fd_list'[g] = alt_fd_list[g] \/ alt_fd_list'[g] = Free
      BY <1>2, <1>3
    <2>3. f # h => Holds(f)'
      BY <1>2, <1>3 DEF Holds
    <2> QED BY <2>1, <2>2, <2>3, FreeTyped, Apart
  <1> QED BY <1>1, <1>3, <1>4, <1>5, <1>6 DEF IInv, ListsTyped

\* A change of the flags of an open descriptor that keeps the device mark, and
\* holds only a device.
LEMMA FlagsStep ==
  ASSUME IInv, NEW h \in Fd, Open(h), NEW flags \in SUBSET Flags,
         "ALT_FD_DEV" \in flags <=> "ALT_FD_DEV" \in alt_fd_list[h].flags,
         "ALT_FD_EXCL" \in flags => "ALT_FD_DEV" \in flags,
         alt_fd_list' = [alt_fd_list EXCEPT ![h].flags = flags],
         redirected, UNCHANGED <<lists, alt_max_fd, redirected, handed>>
  PROVE  /\ IInv'
         /\ \A g \in Fd : /\ alt_fd_list'[g].dev = alt_fd_list[g].dev
                          /\ alt_fd_list'[g].flags = IF g = h THEN flags ELSE alt_fd_list[g].flags
  <1>1. /\ ListsTyped /\ PoolOK(alt_fd_list, alt_max_fd) /\ handed = Used(alt_fd_list)
        /\ alt_fd_list \in [Fd -> Entry] /\ alt_fd_list[h].dev # NoDev
    BY DEF IInv, PoolOK, Open
  <1> DEFINE entry == [dev |-> alt_fd_list[h].dev, acc |-> alt_fd_list[h].acc, flags |-> flags]
  <1>2. entry \in Entry
    BY <1>1 DEF Entry
  <1>3. alt_fd_list' = [alt_fd_list EXCEPT ![h] = entry]
    <2>1. [alt_fd_list[h] EXCEPT !.flags = flags] = entry
      <3>1. alt_fd_list[h] \in Entry
        BY <1>1
      <3> QED BY <3>1 DEF Entry
    <2>2. alt_fd_list' = [alt_fd_list EXCEPT ![h] = [alt_fd_list[h] EXCEPT !.flags = flags]]
      BY <1>1
    <2> QED BY <2>1, <2>2
  <1>4. entry.dev = alt_fd_list[h].dev /\ entry.acc = alt_fd_list[h].acc /\ entry.flags = flags
    OBVIOUS
  <1> HIDE DEF entry
  <1>5. /\ alt_fd_list' \in [Fd -> Entry] /\ alt_fd_list'[h] = entry
        /\ \A g \in Fd : g # h => alt_fd_list'[g] = alt_fd_list[g]
    BY <1>1, <1>2, <1>3
  <1>6. /\ alt_max_fd' = alt_max_fd /\ handed' = handed /\ redirected'
        /\ alt_dev_list' = alt_dev_list /\ alt_fs_list' = alt_fs_list
    BY DEF lists
  <1>7. PoolOK(alt_fd_list, alt_max_fd)'
    <2>1. \A g \in Fd : EntryOK(alt_fd_list, alt_max_fd, g)'
      BY <1>1, <1>4, <1>5, <1>6 DEF PoolOK, EntryOK
    <2> QED BY <1>1, <1>5, <1>6, <2>1 DEF PoolOK
  <1>8. handed' = Used(alt_fd_list)'
    BY <1>1, <1>4, <1>5, <1>6 DEF Used
  <1>9. IInv'
    BY <1>1, <1>6, <1>7, <1>8 DEF IInv, ListsTyped
  <1> QED BY <1>4, <1>5, <1>9

LEMMA IoctlStep ==
  ASSUME IInv, NEW h \in Fd, NEW req \in {"TIOCEXCL", "TIOCNXCL"}, ALT_IOCTL(h, req)
  PROVE  IInv' /\ Kept
  <1> DEFINE old == alt_fd_list[h].flags
             more == old \union {"ALT_FD_EXCL"}
             less == old \ {"ALT_FD_EXCL"}
  <1>1. /\ Open(h) /\ redirected /\ UNCHANGED <<lists, alt_max_fd, redirected, handed>>
    BY DEF ALT_IOCTL
  <1>2. /\ old \in SUBSET Flags /\ more \in SUBSET Flags /\ less \in SUBSET Flags
        /\ "ALT_FD_EXCL" \in old => "ALT_FD_DEV" \in old
    BY DEF IInv, PoolOK, EntryOK, Entry, Flags
  <1>3. CASE UNCHANGED alt_fd_list
    BY <1>1, <1>3 DEF IInv, ListsTyped, PoolOK, EntryOK, Used, Kept, Holds, lists
  <1>4. CASE "ALT_FD_DEV" \in old /\ alt_fd_list' = [alt_fd_list EXCEPT ![h].flags = more]
    <2>1. /\ "ALT_FD_DEV" \in more
          /\ "ALT_FD_EXCL" \in alt_fd_list[h].flags => "ALT_FD_EXCL" \in more
      BY <1>4
    <2> HIDE DEF more
    <2>2. /\ IInv'
          /\ \A g \in Fd : /\ alt_fd_list'[g].dev = alt_fd_list[g].dev
                           /\ alt_fd_list'[g].flags = IF g = h THEN more ELSE alt_fd_list[g].flags
      BY <1>1, <1>2, <1>4, <2>1, FlagsStep
    <2> QED BY <2>1, <2>2 DEF Kept, Holds
  <1>5. CASE /\ "ALT_FD_DEV" \in old /\ req = "TIOCNXCL"
             /\ alt_fd_list' = [alt_fd_list EXCEPT ![h].flags = less]
    <2>1. "ALT_FD_DEV" \in less
      BY <1>5
    <2> HIDE DEF less
    <2>2. /\ IInv'
          /\ \A g \in Fd : /\ alt_fd_list'[g].dev = alt_fd_list[g].dev
                           /\ alt_fd_list'[g].flags = IF g = h THEN less ELSE alt_fd_list[g].flags
      BY <1>1, <1>2, <1>5, <2>1, FlagsStep
    <2> QED BY <1>5, <2>2 DEF Kept, Holds
  <1> QED BY <1>3, <1>4, <1>5 DEF ALT_IOCTL, alt_fd_lock, alt_fd_unlock

LEMMA FcntlStep ==
  ASSUME IInv, NEW h \in Fd, NEW nonblock \in NonBlock, ALT_FCNTL(h, nonblock)
  PROVE  IInv' /\ Kept
  <1> DEFINE old == alt_fd_list[h].flags
             new == (old \ {"O_NONBLOCK"}) \union nonblock
  <1>1. /\ Open(h) /\ redirected /\ UNCHANGED <<lists, alt_max_fd, redirected, handed>>
        /\ alt_fd_list' = [alt_fd_list EXCEPT ![h].flags = new]
    BY DEF ALT_FCNTL
  <1>2. /\ new \in SUBSET Flags
        /\ "ALT_FD_EXCL" \in old => "ALT_FD_DEV" \in old
        /\ "ALT_FD_EXCL" \in new <=> "ALT_FD_EXCL" \in old
        /\ "ALT_FD_DEV" \in new <=> "ALT_FD_DEV" \in old
    BY DEF IInv, PoolOK, EntryOK, Entry, Flags, NonBlock
  <1> HIDE DEF new
  <1>3. /\ IInv'
        /\ \A g \in Fd : /\ alt_fd_list'[g].dev = alt_fd_list[g].dev
                         /\ alt_fd_list'[g].flags = IF g = h THEN new ELSE alt_fd_list[g].flags
    BY <1>1, <1>2, FlagsStep
  <1> QED BY <1>2, <1>3 DEF Kept, Holds

LEMMA NextIInv == IInv /\ [Next]_vars => IInv' /\ [Kept]_vars
  <1> SUFFICES ASSUME IInv, [Next]_vars PROVE IInv' /\ [Kept]_vars
    OBVIOUS
  <1>1. CASE Registers
    BY <1>1, RegistersStep
  <1>2. CASE alt_io_redirect
    BY <1>2, RedirectStep
  <1>3. CASE \E name \in Names : ALT_STAT(name)
    BY <1>3, StatStep
  <1>4. CASE \E name \in Names, acc \in Modes, nonblock \in NonBlock : ALT_OPEN(name, acc, nonblock)
    BY <1>4, OpenStep
  <1>5. CASE \E f \in Fd : ALT_CLOSE(f)
    BY <1>5, CloseStep
  <1>6. CASE \E f \in Fd, req \in {"TIOCEXCL", "TIOCNXCL"} : ALT_IOCTL(f, req)
    BY <1>6, IoctlStep
  <1>7. CASE \E f \in Fd, nonblock \in NonBlock : ALT_FCNTL(f, nonblock)
    BY <1>7, FcntlStep
  <1>8. CASE UNCHANGED vars
    BY <1>8 DEF IInv, ListsTyped, PoolOK, EntryOK, Used, vars, lists, pool
  <1> QED BY <1>1, <1>2, <1>3, <1>4, <1>5, <1>6, <1>7, <1>8 DEF Next

LEMMA FilesInvariant == Spec => []IInv
  BY InitIInv, NextIInv, PTL DEF Spec

-----------------------------------------------------------------------------
\* The pool, the mark and the flags are always such as the types say: a standard
\* descriptor is never free, an open one lies below the mark, and only a
\* device is held.
THEOREM FilesTypes == Spec => []TypeOK
  <1>1. IInv => TypeOK
    <2> SUFFICES ASSUME IInv PROVE TypeOK
      OBVIOUS
    <2>1. /\ alt_fd_list \in [Fd -> Entry] /\ alt_max_fd \in (-1)..(ALT_MAX_FD - 1)
          /\ \A f \in Fd : EntryOK(alt_fd_list, alt_max_fd, f)
          /\ handed = Used(alt_fd_list)
      BY DEF IInv, PoolOK
    <2>2. DevType \union FileSystems \union {NoDev} = Devices \union FileSystems \union {alt_dev_null, NoDev}
      BY DEF DevType
    <2>3. handed \subseteq Fd
      <3>1. Used(alt_fd_list) \subseteq Fd
        BY DEF Used
      <3> QED BY <2>1, <3>1
    <2> QED BY <2>1, <2>2, <2>3 DEF TypeOK, Entry, AccType, EntryOK, Open
  <1> QED BY <1>1, FilesInvariant, PTL

\* Every descriptor beyond the standard ones that is open has been given to a
\* caller that has not closed it: failed opens, stat and the start-up code's
\* own opens leave none behind, and a close always frees one.
THEOREM NoDescriptorLeaks == Spec => []NothingLeaks
  <1>1. IInv => NothingLeaks
    BY DEF IInv, NothingLeaks, Used, Open
  <1> QED BY <1>1, FilesInvariant, PTL

\* A device that a descriptor holds for itself is given to nobody else, and the
\* hold ends by its holder's own calls only.
THEOREM HeldUntilReleased == Spec => LockHolds
  <1>1. [Kept]_vars => [\A f \in Fd : Holds(f) =>
         /\ \A g \in Fd \ {f} : alt_fd_list[g]'.dev = alt_fd_list[f].dev => alt_fd_list[g].dev = alt_fd_list[f].dev
         /\ Holds(f)' \/ ALT_IOCTL(f, "TIOCNXCL") \/ ALT_CLOSE(f)]_vars
    BY DEF Kept
  <1> QED BY <1>1, FilesInvariant, NextIInv, PTL DEF LockHolds, Spec

\* On redirected standard streams the pool answers with the results of the reduced
\* library, a driver's error told in errno instead of as it is.
THEOREM DirectBuildAgrees == Spec => []DirectIsPool
  <1>1. IInv => DirectIsPool
    <2> SUFFICES ASSUME IInv, \A f \in Stdio : "ALT_FD_DEV" \in alt_fd_list[f].flags,
                        "read" \in alt_fd_list[0].dev.ops,
                        \A f \in {1, 2} : "write" \in alt_fd_list[f].dev.ops
                 PROVE  /\ ALT_READ(0) = {InErrno(a.returns) : a \in DirectRead(0)}
                        /\ \A f \in {1, 2} : ALT_WRITE(f) = {InErrno(a.returns) : a \in DirectWrite(f)}
                        /\ \A f \in Stdio : "ioctl" \in alt_fd_list[f].dev.ops =>
                             IoctlAnswer(f) = {InBoth(a.returns) : a \in DirectIoctl(f)}
                        /\ \A f \in Stdio : "fstat" \notin alt_fd_list[f].dev.ops =>
                             ALT_FSTAT(f) = DirectFstat(f) /\ ALT_ISATTY(f) = DirectIsatty(f)
      BY DEF DirectIsPool
    <2>1. \A f \in Stdio : alt_fd_list[f].acc = Meant(f) /\ f \in Nat
      BY Sizes DEF IInv, PoolOK, EntryOK, Stdio
    <2>2. alt_fd_list[0].acc = "O_RDONLY" /\ \A f \in {1, 2} : alt_fd_list[f].acc = "O_WRONLY"
      BY <2>1 DEF Meant, Stdio
    <2>3. ASSUME NEW f, NEW served, f \in served
          PROVE  /\ {InErrno(a.returns) : a \in DirectDriver(f, served)} = {InErrno(rc) : rc \in Driver}
                 /\ {InBoth(a.returns) : a \in DirectDriver(f, served)} = {InBoth(rc) : rc \in Driver}
      <3>1. DirectDriver(f, served) = {AsItIs(rc) : rc \in Driver}
        BY <2>3 DEF DirectDriver
      <3>2. \A rc \in Driver : AsItIs(rc).returns = rc
        BY DEF AsItIs
      <3> HIDE DEF Driver
      <3> QED BY <3>1, <3>2
    <2>4. ALT_READ(0) = {InErrno(a.returns) : a \in DirectRead(0)}
      <3>1. Vectored(0, "read", 0 >= 0 => alt_fd_list[0].acc # "O_WRONLY", "EACCES") = Driver
        BY <2>2 DEF Vectored
      <3> QED BY <2>3, <3>1 DEF ALT_READ, DirectRead
    <2>5. ASSUME NEW f \in {1, 2} PROVE ALT_WRITE(f) = {InErrno(a.returns) : a \in DirectWrite(f)}
      <3>1. Vectored(f, "write", f >= 0 => alt_fd_list[f].acc # "O_RDONLY", "EACCES") = Driver
        BY <2>2 DEF Vectored
      <3> QED BY <2>3, <3>1 DEF ALT_WRITE, DirectWrite
    <2>6. ASSUME NEW f \in Stdio, "ioctl" \in alt_fd_list[f].dev.ops
          PROVE  IoctlAnswer(f) = {InBoth(a.returns) : a \in DirectIoctl(f)}
      <3>1. Vectored(f, "ioctl", TRUE, "ENOTTY") = Driver
        BY <2>1, <2>6 DEF Vectored
      <3> QED BY <2>3, <3>1 DEF IoctlAnswer, DirectIoctl
    <2>7. ASSUME NEW f \in Stdio, "fstat" \notin alt_fd_list[f].dev.ops
          PROVE  ALT_FSTAT(f) = DirectFstat(f) /\ ALT_ISATTY(f) = DirectIsatty(f)
      <3>1. Vectored(f, "fstat", TRUE, "terminal") = {"terminal"} /\ ~(f < 0)
        BY <2>1, <2>7 DEF Vectored
      <3>2. ALT_FSTAT(f) = DirectFstat(f)
        BY <3>1 DEF ALT_FSTAT, DirectFstat
      <3>3. ALT_ISATTY(f) = DirectIsatty(f)
        BY <2>7, <3>1 DEF ALT_ISATTY, DirectIsatty
      <3> QED BY <3>2, <3>3
    <2> QED BY <2>4, <2>5, <2>6, <2>7
  <1> QED BY <1>1, FilesInvariant, PTL
=============================================================================
