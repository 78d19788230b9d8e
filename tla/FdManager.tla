----------------------------- MODULE FdManager -----------------------------
(***************************************************************************)
(* fd_manager.{h,cpp}: what the hooks remember of every descriptor, and    *)
(* the hooked calls of hook.cpp that change it: socket, accept's second    *)
(* half, close, fcntl(F_SETFL), ioctl(FIONBIO) and setsockopt.             *)
(*                                                                         *)
(* A descriptor number is free, or open in the kernel; kernel[fd] holds    *)
(* the part of the open socket that the hooks depend on.  m_datas[fd] is   *)
(* the FdCtx stored under the number.  Nothing ties the two together but   *)
(* the calls below, and a number can be closed and opened again.           *)
(***************************************************************************)
EXTENDS Naturals, FiniteSets

CONSTANTS
  Fds,      \* descriptor numbers
  Prepared, \* the numbers open, with time limits, at the beginning
  MaxGen,   \* bound: how often a number is opened
  None      \* null, and a free number

ASSUME FdAssumption == Prepared \subseteq Fds /\ MaxGen \in Nat \ {0}

VARIABLES
  m_datas,  \* number -> FdCtx or None
  kernel,   \* number -> the open socket, or None
  opened    \* number -> how often it has been opened

fdVars == <<m_datas, kernel, opened>>

Events == {"READ", "WRITE"}

\* m_userNonblock and the two time limits; the other flags of FdCtx never
\* change after init: every descriptor given to get(fd, true) is a socket,
\* m_isClosed is never set and m_sysNonblock never read.
FdCtx == [userNonblock : BOOLEAN, timeout : [Events -> BOOLEAN]]

\* An open socket: whether it is non-blocking, whether the program asked for
\* it to be blocking, what it is ready for, which of its blocking calls the
\* kernel itself limits, and how its connect stands.
Conns == {"none", "progress", "up", "refused"}
OpenSocket == [nonblock : BOOLEAN, askedBlocking : BOOLEAN,
               ready : SUBSET Events, limits : SUBSET Events, conn : Conns]

\* null is no descriptor, no FdCtx and no socket.
ASSUME NullAssumption == None \notin Fds \cup FdCtx \cup OpenSocket

\* The FdCtx constructor; init makes the socket non-blocking in the kernel.
NewFdCtx == [userNonblock |-> FALSE, timeout |-> [e \in Events |-> FALSE]]
InitLeavesBlocking(s) == s
InitNonblock(s) == [s EXCEPT !.nonblock = TRUE]

\* A socket as socket(2) or accept(2) returns it.
FreshSocket(conn) ==
  [nonblock |-> FALSE, askedBlocking |-> FALSE, ready |-> {}, limits |-> {},
   conn |-> conn]

FdInit ==
  /\ m_datas = [fd \in Fds |->
                  IF fd \in Prepared
                  THEN [NewFdCtx EXCEPT !.timeout = [e \in Events |-> TRUE]] ELSE None]
  /\ kernel = [fd \in Fds |-> IF fd \in Prepared
                              THEN [InitNonblock(FreshSocket("none")) EXCEPT !.limits = Events]
                              ELSE None]
  /\ opened = [fd \in Fds |-> IF fd \in Prepared THEN 1 ELSE 0]

FdTypeOK ==
  /\ m_datas \in [Fds -> FdCtx \cup {None}]
  /\ kernel \in [Fds -> OpenSocket \cup {None}]
  /\ opened \in [Fds -> 0 .. MaxGen]

-----------------------------------------------------------------------------
IsOpen(fd) == kernel[fd] # None
CanOpen(fd) == kernel[fd] = None /\ opened[fd] < MaxGen

\* get(fd, true) after the kernel has returned fd for a new socket: an FdCtx
\* that is still stored under the number is kept as it is, and its init,
\* which made the old socket non-blocking, is not called again.  k is the
\* kernel's table without the new socket.
GetCreating(fd, conn, k) ==
  /\ CanOpen(fd)
  /\ opened' = [opened EXCEPT ![fd] = @ + 1]
  /\ m_datas' = [m_datas EXCEPT ![fd] = IF @ = None THEN NewFdCtx ELSE @]
  /\ kernel' = [k EXCEPT ![fd] =
                  IF m_datas[fd] = None THEN InitNonblock(FreshSocket(conn))
                  ELSE FreshSocket(conn)]

\* close with hooks enabled only closes; the FdCtx stays.  (With hooks
\* disabled del is called, but only when there is no FdCtx to delete.)
FdClose(fd) ==
  /\ kernel' = [kernel EXCEPT ![fd] = None]
  /\ UNCHANGED <<m_datas, opened>>

\* fcntl(fd, F_SETFL, flags): setUserNonblock, and then getSysNonblock, which
\* returns m_userNonblock too, decides what the kernel is told.
SetFl(fd, nonblock) ==
  /\ m_datas' = [m_datas EXCEPT ![fd].userNonblock = nonblock]
  /\ kernel' = [kernel EXCEPT ![fd].nonblock = nonblock,
                              ![fd].askedBlocking = ~nonblock]
  /\ UNCHANGED opened

\* ioctl(fd, FIONBIO): on a socket the request goes straight to the kernel
\* and the FdCtx does not learn of it.
SetFionbio(fd, nonblock) ==
  /\ kernel' = [kernel EXCEPT ![fd].nonblock = nonblock,
                              ![fd].askedBlocking = ~nonblock]
  /\ UNCHANGED <<m_datas, opened>>

\* setsockopt(SO_RCVTIMEO or SO_SNDTIMEO), which the kernel is told too.
SetTimeout(fd, e, limited) ==
  /\ m_datas' = [m_datas EXCEPT ![fd].timeout[e] = limited]
  /\ kernel' = [kernel EXCEPT ![fd].limits = IF limited THEN @ \cup {e} ELSE @ \ {e}]
  /\ UNCHANGED opened
=============================================================================
