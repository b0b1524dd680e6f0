--------------------------- MODULE EndpointProofs ---------------------------
(***************************************************************************)
(* The descriptors of a server, from its constructor to its destructor,    *)
(* and the calls of a client, for every value of their constants.          *)
(***************************************************************************)
EXTENDS ServerLife, HttpClient, FiniteSetTheorems, WellFoundedInduction, TLAPS

\* Every non-empty set of natural numbers has a least element: the form of induction
\* used below.
LEMMA LeastNat ==
    ASSUME NEW T, T \subseteq Nat, T # {}
    PROVE  \E m \in T : \A k \in T : m <= k
<1> DEFINE Below == {p \in Nat \X Nat : p[1] < p[2]}
<1>0. IsWellFoundedOn(Below, Nat)
  BY NatLessThanWellFounded, Zenon DEF OpToRel
<1>1. \E x \in T : \A y \in T : ~ (<<y, x>> \in Below)
  BY <1>0, WFMin, Zenon
<1>2. ASSUME NEW x \in T, NEW y \in T, ~ (<<y, x>> \in Below) PROVE x <= y
  BY <1>2
<1>3. QED
  BY <1>1, <1>2, Zenon

-----------------------------------------------------------------------------
(***************************************************************************)
(* The descriptors of a server.                                            *)
(***************************************************************************)

\* A table of descriptors.
Descriptors(fds) ==
    /\ fds = [n \in DOMAIN fds |-> fds[n]]
    /\ DOMAIN fds \subseteq Nat /\ IsFiniteSet(DOMAIN fds)
    /\ \A n \in DOMAIN fds : fds[n] \in {"file", "listen", "epoll"}

\* The kernel always has a number that is free, and gives none that is in use.
LEMMA LowestIsFree ==
    ASSUME NEW fds, Descriptors(fds)
    PROVE  Lowest(fds) \in Nat \ DOMAIN fds
<1> DEFINE D == DOMAIN fds
           c == Cardinality(D)
           T == {n \in 0..c : n \notin D}
<1>1. D \subseteq Nat /\ IsFiniteSet(D) /\ c \in Nat
  BY FS_CardinalityType, Zenon DEF Descriptors
<1>2. T # {}
  <2> SUFFICES ASSUME T = {} PROVE FALSE
    BY Zenon
  <2>1. 0..c \subseteq D
    BY Zenon
  <2>2. Cardinality(0..c) = c + 1
    BY <1>1, FS_Interval
  <2>3. Cardinality(0..c) <= c
    BY <1>1, <2>1, FS_Subset, Zenon
  <2> HIDE DEF c
  <2> QED
    BY <1>1, <2>2, <2>3
<1>3. T \subseteq Nat
  BY <1>1
<1>4. PICK m \in T : \A k \in T : m <= k
  BY <1>2, <1>3, LeastNat, Zenon
<1>5. m \in 0..c /\ m \notin D /\ 0..m-1 \subseteq D
  <2>1. ASSUME NEW k \in 0..m-1, k \notin D PROVE FALSE
    <3>1. k \in 0..c /\ k < m
      BY <1>1, <1>4
    <3> QED
      BY <1>1, <1>4, <2>1, <3>1
  <2> QED
    BY <1>4, <2>1, Zenon
<1> HIDE DEF c
<1>6. Lowest(fds) \in 0..c /\ Lowest(fds) \notin D
  BY <1>5, Zenon DEF Lowest, c
<1> QED
  BY <1>1, <1>6

\* open_socket, epoll_create and the files of the application.
LEMMA OpenedIs ==
    ASSUME NEW fds, Descriptors(fds), NEW what \in {"file", "listen", "epoll"}
    PROVE  LET new == Opened(fds, what) IN
           /\ Descriptors(new)
           /\ DOMAIN new = DOMAIN fds \cup {Lowest(fds)} /\ Lowest(fds) \in Nat \ DOMAIN fds
           /\ new[Lowest(fds)] = what /\ \A n \in DOMAIN fds : new[n] = fds[n]
<1> DEFINE l == Lowest(fds)
           new == Opened(fds, what)
<1>1. l \in Nat \ DOMAIN fds
  BY LowestIsFree, Zenon
<1> HIDE DEF l
<1>2. new = [n \in DOMAIN fds \cup {l} |-> IF n \in DOMAIN fds THEN fds[n] ELSE what]
  BY Zenon DEF Opened, l
<1>3. DOMAIN new = DOMAIN fds \cup {l} /\ new[l] = what /\ \A n \in DOMAIN fds : new[n] = fds[n]
  BY <1>1, <1>2, Zenon
<1>4. IsFiniteSet(DOMAIN fds \cup {l})
  BY FS_AddElement, Zenon DEF Descriptors
<1>5. new = [n \in DOMAIN new |-> new[n]]
  BY <1>2, Zenon
<1> HIDE DEF new
<1>6. Descriptors(new)
  BY <1>1, <1>3, <1>4, <1>5, Zenon DEF Descriptors
<1> QED
  BY <1>1, <1>3, <1>6, Zenon DEF new, l

\* close.
LEMMA ClosedIs ==
    ASSUME NEW fds, Descriptors(fds), NEW k
    PROVE  LET new == Closed(fds, k) IN
           /\ Descriptors(new)
           /\ DOMAIN new = DOMAIN fds \ {k} /\ \A n \in DOMAIN new : new[n] = fds[n]
<1> DEFINE new == Closed(fds, k)
<1>1. new = [n \in DOMAIN fds \ {k} |-> fds[n]]
  BY Zenon DEF Closed
<1>2. IsFiniteSet(DOMAIN fds \ {k})
  BY FS_Subset, Zenon DEF Descriptors
<1>3. DOMAIN new = DOMAIN fds \ {k} /\ (\A n \in DOMAIN new : new[n] = fds[n]) /\ new = [n \in DOMAIN new |-> new[n]]
  BY <1>1, Zenon
<1> HIDE DEF new
<1>4. Descriptors(new)
  BY <1>2, <1>3, Zenon DEF Descriptors
<1> QED
  BY <1>3, <1>4, Zenon DEF new

-----------------------------------------------------------------------------
\* A step of the destructors.
Dues == {"close", "server", "thread"} \X Nat

\* Nothing is open that a server opened.
Filed(fds) == \A n \in DOMAIN fds : fds[n] = "file"

\* The only listening socket is sock, the only epoll handles those of the Servers.
Owned(fds, sock, eps) ==
    /\ \A n \in DOMAIN fds : fds[n] = "listen" => n = sock
    /\ \A n \in DOMAIN fds : fds[n] = "epoll" => \E i \in 1..Len(eps) : eps[i] = n

\* They are what the server takes them for.
Held(fds, sock, eps) ==
    /\ sock \in DOMAIN fds /\ fds[sock] = "listen"
    /\ \A i \in 1..Len(eps) : eps[i] \in DOMAIN fds /\ fds[eps[i]] = "epoll"

\* What is open is closed by a destructor that is still to run.
Pending(fds, eps, due) ==
    \A n \in DOMAIN fds : fds[n] # "file" =>
        \E k \in 1..Len(due) : \/ due[k] = <<"close", n>>
                               \/ \E i \in 1..Len(eps) : eps[i] = n /\ due[k] = <<"server", i>>

\* The steps of the constructor behind socket().
Begun == {"linger", "reuse", "bind", "listen"}

\* The inductive invariant of the server's process, on the fields of sv: which
\* descriptors are owned, and by whom, at each place of the program.
Alive(at, fds, sock, eps, due) ==
    /\ Descriptors(fds) /\ sock \in Nat /\ eps \in Seq(Nat) /\ due \in Seq(Dues)
    /\ \A k \in 1..Len(due) : due[k][1] = "server" => due[k][2] \in 1..Len(eps)
    /\ at = "open_socket" => Filed(fds)
    /\ at \in Begun \cup {"open_socket", "catch"} => eps = <<>>
    /\ at \in Begun \cup {"catch", "servers", "serve", "join"} => Owned(fds, sock, eps)
    /\ at \in Begun \cup {"servers", "serve", "join"} => Held(fds, sock, eps)
    /\ at \in {"serve", "join"} => Len(eps) = Num
    /\ at = "destroy" => Pending(fds, eps, due)
    /\ at = "gone" => Filed(fds)

\* The application opens a file, which is no descriptor of the server.
LEMMA FileAlive ==
    ASSUME NEW at, NEW fds, NEW sock, NEW eps, NEW due, Alive(at, fds, sock, eps, due)
    PROVE  Alive(at, Opened(fds, "file"), sock, eps, due)
<1> DEFINE new == Opened(fds, "file")
           l == Lowest(fds)
<1>1. Descriptors(fds)
  BY Zenon DEF Alive
<1>2. /\ Descriptors(new) /\ DOMAIN new = DOMAIN fds \cup {l} /\ l \notin DOMAIN fds
      /\ new[l] = "file" /\ \A n \in DOMAIN fds : new[n] = fds[n]
  BY <1>1, OpenedIs, Zenon
<1> HIDE DEF new, l
<1>3. Filed(fds) => Filed(new)
  BY <1>2, Zenon DEF Filed
<1>4. Owned(fds, sock, eps) => Owned(new, sock, eps)
  BY <1>2, Zenon DEF Owned
<1>5. Held(fds, sock, eps) => Held(new, sock, eps)
  BY <1>2, Zenon DEF Held
<1>6. Pending(fds, eps, due) => Pending(new, eps, due)
  BY <1>2, Zenon DEF Pending
<1>7. Alive(at, new, sock, eps, due)
  BY <1>2, <1>3, <1>4, <1>5, <1>6, Zenon DEF Alive
<1> QED
  BY <1>7, Zenon DEF new

\* socket() gives a number that is free.
LEMMA SocketAlive ==
    ASSUME NEW fds, NEW sock, NEW eps, NEW due, Alive("open_socket", fds, sock, eps, due)
    PROVE  Alive("linger", Opened(fds, "listen"), Lowest(fds), eps, due)
<1> DEFINE new == Opened(fds, "listen")
           l == Lowest(fds)
<1>1. Descriptors(fds) /\ Filed(fds) /\ eps = <<>>
  BY Zenon DEF Alive
<1>2. /\ Descriptors(new) /\ DOMAIN new = DOMAIN fds \cup {l} /\ l \in Nat
      /\ new[l] = "listen" /\ \A n \in DOMAIN fds : new[n] = fds[n]
  BY <1>1, OpenedIs, Zenon
<1> HIDE DEF new, l
<1>3. Owned(new, l, eps)
  BY <1>1, <1>2, Zenon DEF Owned, Filed
<1>4. Held(new, l, eps)
  BY <1>1, <1>2 DEF Held
<1>5. Alive("linger", new, l, eps, due)
  BY <1>1, <1>2, <1>3, <1>4, Zenon DEF Alive, Begun
<1> QED
  BY <1>5, Zenon DEF new, l

\* IoContext, for one more Server.
LEMMA ContextAlive ==
    ASSUME NEW fds, NEW sock, NEW eps, NEW due, Alive("servers", fds, sock, eps, due)
    PROVE  Alive("servers", Opened(fds, "epoll"), sock, Append(eps, Lowest(fds)), due)
<1> DEFINE new == Opened(fds, "epoll")
           l == Lowest(fds)
           more == Append(eps, l)
<1>1. Descriptors(fds) /\ Owned(fds, sock, eps) /\ Held(fds, sock, eps) /\ eps \in Seq(Nat)
  BY Zenon DEF Alive
<1>2. /\ Descriptors(new) /\ DOMAIN new = DOMAIN fds \cup {l} /\ l \in Nat /\ l \notin DOMAIN fds
      /\ new[l] = "epoll" /\ \A n \in DOMAIN fds : new[n] = fds[n]
  BY <1>1, OpenedIs, Zenon
<1> HIDE DEF new, l
<1>3. /\ more \in Seq(Nat) /\ Len(more) = Len(eps) + 1 /\ Len(eps) \in Nat /\ more[Len(eps) + 1] = l
      /\ \A i \in 1..Len(eps) : more[i] = eps[i]
  BY <1>1, <1>2
<1> HIDE DEF more
<1>4. Owned(new, sock, more)
  <2>1. ASSUME NEW n \in DOMAIN new, new[n] = "listen" PROVE n = sock
    BY <1>1, <1>2, <2>1, Zenon DEF Owned
  <2>2. ASSUME NEW n \in DOMAIN new, new[n] = "epoll" PROVE \E i \in 1..Len(more) : more[i] = n
    <3>1. CASE n = l
      BY <1>3, <3>1
    <3>2. CASE n # l
      <4>1. PICK i \in 1..Len(eps) : eps[i] = n
        BY <1>1, <1>2, <2>2, <3>2, Zenon DEF Owned
      <4> QED
        BY <1>3, <4>1
    <3> QED
      BY <3>1, <3>2, Zenon
  <2> QED
    BY <2>1, <2>2, Zenon DEF Owned
<1>5. Held(new, sock, more)
  <2>1. sock \in DOMAIN new /\ new[sock] = "listen"
    BY <1>1, <1>2, Zenon DEF Held
  <2>2. ASSUME NEW i \in 1..Len(more) PROVE more[i] \in DOMAIN new /\ new[more[i]] = "epoll"
    <3>1. CASE i = Len(eps) + 1
      BY <1>2, <1>3, <3>1, Zenon
    <3>2. CASE i # Len(eps) + 1
      <4>1. i \in 1..Len(eps)
        BY <1>3, <3>2
      <4> QED
        BY <1>1, <1>2, <1>3, <4>1, SMTT(30) DEF Held
    <3> QED
      BY <3>1, <3>2, Zenon
  <2> QED
    BY <2>1, <2>2, Zenon DEF Held
<1>6. \A k \in 1..Len(due) : due[k][1] = "server" => due[k][2] \in 1..Len(more)
  BY <1>3, SMTT(30) DEF Alive
<1>7. Alive("servers", new, sock, more, due)
  BY <1>2, <1>3, <1>4, <1>5, <1>6, Zenon DEF Alive, Begun
<1> QED
  BY <1>7, Zenon DEF new, more, l

\* ~http_server, from wherever the server is left.
LEMMA DestructorsAlive ==
    ASSUME NEW at, NEW fds, NEW sock, NEW eps, NEW due, Alive(at, fds, sock, eps, due), Owned(fds, sock, eps)
    PROVE  Alive("destroy", fds, sock, eps, close_acceptor(sock) \o [i \in 1..Len(eps) |-> <<"server", i>>])
<1> DEFINE tail == [i \in 1..Len(eps) |-> <<"server", i>>]
           first == <<"close", sock>>
           new == <<first>> \o tail
<1>1. Descriptors(fds) /\ sock \in Nat /\ eps \in Seq(Nat) /\ Len(eps) \in Nat
  BY DEF Alive
<1>2. first \in Dues /\ \A i \in Nat : <<"server", i>> \in Dues
  BY <1>1, Zenon DEF Dues
<1>3. tail \in Seq(Dues) /\ Len(tail) = Len(eps) /\ \A i \in 1..Len(eps) : tail[i] = <<"server", i>>
  BY <1>1, <1>2
<1> HIDE DEF tail
<1>4. /\ new \in Seq(Dues) /\ Len(new) = Len(eps) + 1 /\ new[1] = first
      /\ \A i \in 1..Len(eps) : new[i + 1] = tail[i]
  <2> HIDE DEF first
  <2> QED
    BY <1>1, <1>2, <1>3
<1> HIDE DEF new
<1>5. Pending(fds, eps, new)
  <2> SUFFICES ASSUME NEW n \in DOMAIN fds, fds[n] # "file"
               PROVE  \E k \in 1..Len(new) : \/ new[k] = <<"close", n>>
                                             \/ \E i \in 1..Len(eps) : eps[i] = n /\ new[k] = <<"server", i>>
    BY Zenon DEF Pending
  <2>1. fds[n] = "listen" \/ fds[n] = "epoll"
    BY <1>1, Zenon DEF Descriptors
  <2>2. CASE fds[n] = "listen"
    BY <1>1, <1>4, <2>2 DEF Owned
  <2>3. CASE fds[n] = "epoll"
    <3>1. PICK i \in 1..Len(eps) : eps[i] = n
      BY <2>3, Zenon DEF Owned
    <3>2. new[i + 1] = <<"server", i>> /\ i + 1 \in 1..Len(new)
      <4>1. new[i + 1] = tail[i] /\ tail[i] = <<"server", i>>
        BY <1>3, <1>4, Zenon
      <4>2. i + 1 \in 1..Len(new)
        BY <1>1, <1>4
      <4> QED
        BY <4>1, <4>2, Zenon
    <3> QED
      BY <3>1, <3>2, Zenon
  <2> QED
    BY <2>1, <2>2, <2>3, Zenon
<1>6. ASSUME NEW k \in 1..Len(new), new[k][1] = "server" PROVE new[k][2] \in 1..Len(eps)
  <2>1. k # 1
    BY <1>4, <1>6
  <2>2. k - 1 \in 1..Len(eps) /\ (k - 1) + 1 = k
    BY <1>1, <1>4, <2>1
  <2>3. new[k] = <<"server", k - 1>>
    BY <1>3, <1>4, <2>2, Zenon
  <2> QED
    BY <2>2, <2>3
<1>7. Alive("destroy", fds, sock, eps, new)
  BY <1>1, <1>4, <1>5, <1>6, Zenon DEF Alive, Begun
<1>8. close_acceptor(sock) = <<first>>
  BY <1>1 DEF close_acceptor
<1> QED
  BY <1>7, <1>8, Zenon DEF new, tail

\* close() in a destructor: what it does not close, a later one does.
LEMMA CloseAlive ==
    ASSUME NEW fds, NEW sock, NEW eps, NEW due, NEW n, Alive("destroy", fds, sock, eps, due),
           due # <<>>, Head(due) = <<"close", n>>
    PROVE  Alive("destroy", Closed(fds, n), sock, eps, Tail(due))
<1> DEFINE new == Closed(fds, n)
           rest == Tail(due)
<1>1. /\ Descriptors(fds) /\ due \in Seq(Dues) /\ Pending(fds, eps, due)
      /\ \A k \in 1..Len(due) : due[k][1] = "server" => due[k][2] \in 1..Len(eps)
  BY Zenon DEF Alive
<1>2. Descriptors(new) /\ DOMAIN new = DOMAIN fds \ {n} /\ \A m \in DOMAIN new : new[m] = fds[m]
  BY <1>1, ClosedIs, Zenon
<1>3. /\ rest \in Seq(Dues) /\ Len(due) \in Nat /\ Len(rest) = Len(due) - 1 /\ due[1] = <<"close", n>>
      /\ \A k \in 1..Len(rest) : rest[k] = due[k + 1]
  BY <1>1
<1> HIDE DEF new, rest
<1>4. Pending(new, eps, rest)
  <2> SUFFICES ASSUME NEW m \in DOMAIN new, new[m] # "file"
               PROVE  \E k \in 1..Len(rest) : \/ rest[k] = <<"close", m>>
                                              \/ \E i \in 1..Len(eps) : eps[i] = m /\ rest[k] = <<"server", i>>
    BY Zenon DEF Pending
  <2>1. PICK k \in 1..Len(due) : \/ due[k] = <<"close", m>>
                                \/ \E i \in 1..Len(eps) : eps[i] = m /\ due[k] = <<"server", i>>
    BY <1>1, <1>2, Zenon DEF Pending
  <2>2. k # 1
    BY <1>2, <1>3, <2>1
  <2>3. k - 1 \in 1..Len(rest) /\ rest[k - 1] = due[k]
    BY <1>3, <2>2
  <2> QED
    BY <2>1, <2>3, Zenon
<1>5. \A k \in 1..Len(rest) : rest[k][1] = "server" => rest[k][2] \in 1..Len(eps)
  <2> SUFFICES ASSUME NEW k \in 1..Len(rest) PROVE rest[k][1] = "server" => rest[k][2] \in 1..Len(eps)
    BY Zenon
  <2>1. k + 1 \in 1..Len(due) /\ rest[k] = due[k + 1]
    BY <1>3
  <2> QED
    BY <1>1, <2>1, Zenon
<1>6. Alive("destroy", new, sock, eps, rest)
  BY <1>2, <1>3, <1>4, <1>5, Zenon DEF Alive, Begun
<1> QED
  BY <1>6, Zenon DEF new, rest

\* A thread that was joined, or never started.
LEMMA ThreadAlive ==
    ASSUME NEW fds, NEW sock, NEW eps, NEW due, Alive("destroy", fds, sock, eps, due),
           due # <<>>, Head(due)[1] = "thread"
    PROVE  Alive("destroy", fds, sock, eps, Tail(due))
<1> DEFINE rest == Tail(due)
<1>1. /\ due \in Seq(Dues) /\ Pending(fds, eps, due)
      /\ \A k \in 1..Len(due) : due[k][1] = "server" => due[k][2] \in 1..Len(eps)
  BY Zenon DEF Alive
<1>2. /\ rest \in Seq(Dues) /\ Len(due) \in Nat /\ Len(rest) = Len(due) - 1 /\ due[1][1] = "thread"
      /\ \A k \in 1..Len(rest) : rest[k] = due[k + 1]
  BY <1>1
<1> HIDE DEF rest
<1>3. Pending(fds, eps, rest)
  <2> SUFFICES ASSUME NEW m \in DOMAIN fds, fds[m] # "file"
               PROVE  \E k \in 1..Len(rest) : \/ rest[k] = <<"close", m>>
                                              \/ \E i \in 1..Len(eps) : eps[i] = m /\ rest[k] = <<"server", i>>
    BY Zenon DEF Pending
  <2>1. PICK k \in 1..Len(due) : \/ due[k] = <<"close", m>>
                                \/ \E i \in 1..Len(eps) : eps[i] = m /\ due[k] = <<"server", i>>
    BY <1>1, Zenon DEF Pending
  <2>2. k # 1
    BY <1>2, <2>1
  <2>3. k - 1 \in 1..Len(rest) /\ rest[k - 1] = due[k]
    BY <1>2, <2>2
  <2> QED
    BY <2>1, <2>3, Zenon
<1>4. \A k \in 1..Len(rest) : rest[k][1] = "server" => rest[k][2] \in 1..Len(eps)
  <2> SUFFICES ASSUME NEW k \in 1..Len(rest) PROVE rest[k][1] = "server" => rest[k][2] \in 1..Len(eps)
    BY Zenon
  <2>1. k + 1 \in 1..Len(due) /\ rest[k] = due[k + 1]
    BY <1>2
  <2> QED
    BY <1>1, <2>1, Zenon
<1>5. Alive("destroy", fds, sock, eps, rest)
  BY <1>2, <1>3, <1>4, Zenon DEF Alive, Begun
<1> QED
  BY <1>5, Zenon DEF rest

\* Three elements in front of a sequence.
LEMMA Prefixed ==
    ASSUME NEW S, NEW a \in S, NEW b \in S, NEW c \in S, NEW rest \in Seq(S),
           NEW new, NEW one, one = <<a>>, NEW two, two = <<b, c>>, new = (one \o two) \o rest
    PROVE  /\ new \in Seq(S) /\ Len(new) = Len(rest) + 3
           /\ new[1] = a /\ new[2] = b /\ new[3] = c
           /\ \A k \in 1..Len(rest) : new[k + 3] = rest[k]
<1> DEFINE three == one \o two
<1>1. one \in Seq(S) /\ Len(one) = 1 /\ one[1] = a
  OBVIOUS
<1>2. two \in Seq(S) /\ Len(two) = 2 /\ two[1] = b /\ two[2] = c
  OBVIOUS
<1>3. new = three \o rest
  BY Zenon
<1>4. three \in Seq(S) /\ Len(three) = 3 /\ three[1] = a /\ three[2] = b /\ three[3] = c
  BY <1>1, <1>2
<1> HIDE DEF three
<1> QED
  BY <1>3, <1>4

\* ~Server: its acceptor, its thread and its context.
LEMMA ServerAlive ==
    ASSUME NEW fds, NEW sock, NEW eps, NEW due, NEW i, Alive("destroy", fds, sock, eps, due),
           due # <<>>, Head(due) = <<"server", i>>
    PROVE  Alive("destroy", fds, sock, eps,
                 (close_acceptor(sock) \o <<<<"thread", i>>, <<"close", eps[i]>>>>) \o Tail(due))
<1> DEFINE rest == Tail(due)
           first == <<"close", sock>>
           second == <<"thread", i>>
           third == <<"close", eps[i]>>
           new == (<<first>> \o <<second, third>>) \o rest
<1>1. /\ due \in Seq(Dues) /\ Pending(fds, eps, due) /\ sock \in Nat /\ eps \in Seq(Nat)
      /\ \A k \in 1..Len(due) : due[k][1] = "server" => due[k][2] \in 1..Len(eps)
  BY Zenon DEF Alive
<1>2. /\ rest \in Seq(Dues) /\ Len(due) \in Nat /\ Len(due) > 0 /\ Len(rest) = Len(due) - 1
      /\ due[1] = <<"server", i>>
      /\ \A k \in 1..Len(rest) : rest[k] = due[k + 1]
  BY <1>1
<1>3. i \in 1..Len(eps)
  BY <1>1, <1>2
<1>4. /\ first \in Dues /\ second \in Dues /\ third \in Dues
      /\ first[1] # "server" /\ second[1] # "server" /\ third[1] # "server"
  BY <1>1, <1>3 DEF Dues
<1>5. third = <<"close", eps[i]>>
  BY Zenon
<1>6. close_acceptor(sock) = <<first>>
  BY <1>1 DEF close_acceptor
<1> HIDE DEF rest, first, second, third
<1>7. /\ new \in Seq(Dues) /\ Len(new) = Len(rest) + 3
      /\ new[1] = first /\ new[2] = second /\ new[3] = third
      /\ \A k \in 1..Len(rest) : new[k + 3] = rest[k]
  <2> HIDE DEF new
  <2>1. new = (<<first>> \o <<second, third>>) \o rest
    BY Zenon DEF new
  <2> QED
    BY <1>2, <1>4, <2>1, Prefixed, SMTT(30)
<1> HIDE DEF new
<1>8. Pending(fds, eps, new)
  <2> SUFFICES ASSUME NEW m \in DOMAIN fds, fds[m] # "file"
               PROVE  \E k \in 1..Len(new) : \/ new[k] = <<"close", m>>
                                             \/ \E j \in 1..Len(eps) : eps[j] = m /\ new[k] = <<"server", j>>
    BY Zenon DEF Pending
  <2>1. PICK k \in 1..Len(due) : \/ due[k] = <<"close", m>>
                                \/ \E j \in 1..Len(eps) : eps[j] = m /\ due[k] = <<"server", j>>
    BY <1>1, Zenon DEF Pending
  <2>2. CASE k = 1
    <3>1. eps[i] = m
      BY <1>2, <2>1, <2>2
    <3> QED
      BY <1>2, <1>5, <1>7, <3>1
  <2>3. CASE k # 1
    <3>1. k + 2 \in 1..Len(new) /\ new[k + 2] = due[k]
      <4>1. k - 1 \in 1..Len(rest) /\ rest[k - 1] = due[k] /\ (k - 1) + 3 = k + 2
        BY <1>2, <2>3
      <4> QED
        BY <1>2, <1>7, <4>1
    <3> QED
      BY <2>1, <3>1, Zenon
  <2> QED
    BY <2>2, <2>3, Zenon
<1>9. ASSUME NEW k \in 1..Len(new), new[k][1] = "server" PROVE new[k][2] \in 1..Len(eps)
  <2>1. k # 1 /\ k # 2 /\ k # 3
    BY <1>4, <1>7, <1>9, Zenon
  <2>2. k - 2 \in 1..Len(due) /\ new[k] = due[k - 2]
    <3>1. Len(rest) \in Nat /\ Len(rest) = Len(due) - 1 /\ Len(due) \in Nat /\ Len(new) = Len(rest) + 3
      BY <1>2, <1>7
    <3>2. k - 3 \in 1..Len(rest) /\ (k - 3) + 3 = k /\ (k - 3) + 1 = k - 2
      BY <2>1, <3>1
    <3>3. new[k] = rest[k - 3] /\ rest[k - 3] = due[k - 2]
      BY <1>2, <1>7, <3>2, Zenon
    <3> QED
      BY <3>1, <3>2, <3>3
  <2> QED
    BY <1>1, <1>9, <2>2, Zenon
<1>10. Alive("destroy", fds, sock, eps, new)
  BY <1>7, <1>8, <1>9, Zenon DEF Alive, Begun
<1> QED
  BY <1>6, <1>10, Zenon DEF new, rest, second, third

-----------------------------------------------------------------------------
\* The record sv, from its fields.
Process(at, fds, sock, eps, thr, due, tries, files) ==
    [at |-> at, fds |-> fds, sock |-> sock, eps |-> eps, thr |-> thr, due |-> due,
     tries |-> tries, files |-> files]

\* The inductive invariant of the server's process.
SVInv ==
    \E at, fds, sock, eps, thr, due, tries, files :
        sv = Process(at, fds, sock, eps, thr, due, tries, files) /\ Alive(at, fds, sock, eps, due)

\* A server that is made anew.
LEMMA AcceptorAlive ==
    ASSUME NEW fds, Descriptors(fds), Filed(fds), NEW tries, NEW files
    PROVE  /\ Acceptor(fds, tries, files) =
                 Process("open_socket", fds, 0, <<>>, [i \in 1..Num |-> "none"], <<>>, tries, files)
           /\ Alive("open_socket", fds, 0, <<>>, <<>>)
BY DEF Acceptor, NULL_SOCKET, Process, Alive, Begun

\* The process that has not begun satisfies the invariant.
LEMMA SVInitially ==
    ASSUME SVInit
    PROVE  SVInv
<1>1. PICK open \in {{0}, {}} : sv = Acceptor([n \in open |-> "file"], 1, 0)
  BY Zenon DEF SVInit
<1> DEFINE fds == [n \in open |-> "file"]
<1>2. IsFiniteSet(open)
  <2>1. IsFiniteSet({}) /\ IsFiniteSet({0})
    BY FS_EmptySet, FS_Singleton, Zenon
  <2> QED
    BY <2>1, Zenon
<1>3. Descriptors(fds) /\ Filed(fds)
  BY <1>2 DEF Descriptors, Filed
<1> HIDE DEF fds
<1>4. sv = Acceptor(fds, 1, 0)
  BY <1>1, Zenon DEF fds
<1> QED
  BY <1>3, <1>4, AcceptorAlive DEF SVInv

\* The main thread goes on to a place with the same demands, or fewer.
LEMMA MovesAlive ==
    ASSUME NEW at, NEW fds, NEW sock, NEW eps, NEW due, Alive(at, fds, sock, eps, due), NEW to,
           \/ to = at
           \/ at \in Begun \cup {"open_socket"} /\ to = "catch"
           \/ at \in Begun /\ to \in Begun \cup {"servers"}
           \/ at \in {"servers", "serve", "join"} /\ Len(eps) = Num /\ to \in {"serve", "join"}
           \/ to \in {"exited", "terminated"}
    PROVE  Alive(to, fds, sock, eps, due)
<1>1. at = "open_socket" => Owned(fds, sock, eps)
  BY Zenon DEF Alive, Filed, Owned
<1> QED
  BY <1>1, Zenon DEF Alive, Begun

\* The constructor of Acceptor.
Builds == open_socket \/ init \/ bind_socket \/ listen \/ Catches

\* Every step that builds the endpoint and the servers keeps the invariant.
LEMMA SVBuilds ==
    ASSUME SVInv, Builds
    PROVE  SVInv'
<1>1. PICK at, fds, sock, eps, thr, due, tries, files :
          sv = Process(at, fds, sock, eps, thr, due, tries, files) /\ Alive(at, fds, sock, eps, due)
  BY Zenon DEF SVInv
<1>2. sv.at = at /\ sv.fds = fds /\ sv.sock = sock /\ sv.eps = eps /\ sv.thr = thr /\ sv.due = due
  BY <1>1, Zenon DEF Process
<1>3. ASSUME NEW to, sv' = [sv EXCEPT !.at = to],
             \/ at \in Begun \cup {"open_socket"} /\ to = "catch"
             \/ at \in Begun /\ to \in Begun \cup {"servers"}
      PROVE  SVInv'
  <2>1. sv' = Process(to, fds, sock, eps, thr, due, tries, files)
    BY <1>1, <1>3, Zenon DEF Process
  <2>2. Alive(to, fds, sock, eps, due)
    BY <1>1, <1>3, MovesAlive, Zenon
  <2> QED
    BY <2>1, <2>2, Zenon DEF SVInv
<1>4. CASE open_socket
  <2>1. at = "open_socket"
    BY <1>2, <1>4, Zenon DEF open_socket
  <2>2. CASE sv' = [sv EXCEPT !.at = "linger", !.sock = Lowest(sv.fds), !.fds = Opened(@, "listen")]
    <3>1. sv' = Process("linger", Opened(fds, "listen"), Lowest(fds), eps, thr, due, tries, files)
      BY <1>1, <2>2, Zenon DEF Process
    <3>2. Alive("linger", Opened(fds, "listen"), Lowest(fds), eps, due)
      BY <1>1, <2>1, SocketAlive, Zenon
    <3> QED
      BY <3>1, <3>2, Zenon DEF SVInv
  <2>3. CASE sv' = [sv EXCEPT !.at = "catch"]
    BY <1>3, <2>1, <2>3, Zenon
  <2> QED
    BY <1>4, <2>2, <2>3, Zenon DEF open_socket
<1>5. ASSUME NEW from \in Begun, NEW to \in Begun \cup {"servers"}, Tried(from, to) PROVE SVInv'
  <2>1. at \in Begun /\ (sv' = [sv EXCEPT !.at = to] \/ sv' = [sv EXCEPT !.at = "catch"])
    BY <1>2, <1>5, Zenon DEF Tried
  <2> QED
    BY <1>3, <2>1, Zenon
<1>6. CASE init \/ bind_socket \/ listen
  BY <1>5, <1>6, Zenon DEF init, bind_socket, listen, Begun
<1>7. CASE Catches
  <2>1. at = "catch" /\ Descriptors(fds) /\ sock \in Nat /\ eps = <<>> /\ Owned(fds, sock, eps)
    BY <1>1, <1>2, <1>7, Zenon DEF Catches, Alive
  <2>2. [i \in 1..Len(eps) |-> <<"server", i>>] = <<>>
    BY <2>1
  <2>3. close_acceptor(sock) = <<<<"close", sock>>>> /\ close_acceptor(0) = <<<<"close", 0>>>>
    BY <2>1 DEF close_acceptor
  <2>4. \A n \in Nat : <<<<"close", n>>>> \o <<>> = <<<<"close", n>>>>
    OBVIOUS
  <2>5. PICK after \in reset :
            sv' = IF after.at = "exited" THEN after
                  ELSE [after EXCEPT !.at = "destroy", !.due = close_acceptor(after.sock)]
    BY <1>7, Zenon DEF Catches
  <2>6. \/ after = sv
        \/ after = [sv EXCEPT !.at = "exited"]
        \/ after = [sv EXCEPT !.fds = Closed(@, sv.sock), !.sock = NULL_SOCKET]
    BY Zenon DEF reset
  <2>7. CASE after = sv
    <3>1. sv' = Process("destroy", fds, sock, eps, thr, close_acceptor(sock), tries, files)
      BY <1>1, <2>1, <2>5, <2>7, Zenon DEF Process
    <3>2. Alive("destroy", fds, sock, eps, close_acceptor(sock))
      <4>1. Alive("destroy", fds, sock, eps, close_acceptor(sock) \o [i \in 1..Len(eps) |-> <<"server", i>>])
        BY <1>1, <2>1, DestructorsAlive, Zenon
      <4> QED
        BY <2>1, <2>2, <2>3, <2>4, <4>1, Zenon
    <3> QED
      BY <3>1, <3>2, Zenon DEF SVInv
  <2>8. CASE after = [sv EXCEPT !.at = "exited"]
    <3>1. sv' = Process("exited", fds, sock, eps, thr, due, tries, files)
      BY <1>1, <2>5, <2>8, Zenon DEF Process
    <3>2. Alive("exited", fds, sock, eps, due)
      BY <1>1, MovesAlive, Zenon
    <3> QED
      BY <3>1, <3>2, Zenon DEF SVInv
  <2>9. CASE after = [sv EXCEPT !.fds = Closed(@, sv.sock), !.sock = NULL_SOCKET]
    <3> DEFINE new == Closed(fds, sock)
    <3>1. sv' = Process("destroy", new, 0, eps, thr, close_acceptor(0), tries, files)
      BY <1>1, <2>1, <2>5, <2>9, Zenon DEF Process, NULL_SOCKET
    <3>2. Descriptors(new) /\ DOMAIN new = DOMAIN fds \ {sock} /\ \A m \in DOMAIN new : new[m] = fds[m]
      BY <2>1, ClosedIs, Zenon
    <3> HIDE DEF new
    <3>3. Owned(new, 0, eps)
      BY <2>1, <3>2, Zenon DEF Owned
    <3>4. Alive("catch", new, 0, eps, due)
      BY <1>1, <2>1, <3>2, <3>3, Zenon DEF Alive, Begun
    <3>5. Alive("destroy", new, 0, eps, close_acceptor(0))
      <4>1. Alive("destroy", new, 0, eps, close_acceptor(0) \o [i \in 1..Len(eps) |-> <<"server", i>>])
        BY <3>3, <3>4, DestructorsAlive, Zenon
      <4> QED
        BY <2>2, <2>3, <2>4, <4>1, Zenon
    <3> QED
      BY <3>1, <3>5, Zenon DEF SVInv
  <2> QED
    BY <2>6, <2>7, <2>8, <2>9, Zenon
<1> QED
  BY <1>4, <1>6, <1>7, Zenon DEF Builds

\* The Servers are made, started and joined, or their destructors begin.
Runs == Server \/ Serve \/ \E i \in 1..Num : ThreadEnds(i) \/ Join(i)

\* Serving, joining and destroying keep the invariant.
LEMMA SVRuns ==
    ASSUME SVInv, Runs
    PROVE  SVInv'
<1>1. PICK at, fds, sock, eps, thr, due, tries, files :
          sv = Process(at, fds, sock, eps, thr, due, tries, files) /\ Alive(at, fds, sock, eps, due)
  BY Zenon DEF SVInv
<1>2. sv.at = at /\ sv.fds = fds /\ sv.sock = sock /\ sv.eps = eps /\ sv.thr = thr /\ sv.due = due
  BY <1>1, Zenon DEF Process
<1>3. ASSUME NEW t, NEW to, sv' = Process(to, fds, sock, eps, t, due, tries, files),
             \/ to = at
             \/ at \in {"servers", "serve", "join"} /\ Len(eps) = Num /\ to \in {"serve", "join"}
      PROVE  SVInv'
  <2>1. Alive(to, fds, sock, eps, due)
    BY <1>1, <1>3, MovesAlive, Zenon
  <2> QED
    BY <1>3, <2>1, Zenon DEF SVInv
<1>4. ASSUME NEW t, sv' = Process("destroy", fds, sock, eps, t, Destructors, tries, files),
             at \in {"servers", "serve", "join"}
      PROVE  SVInv'
  <2> DEFINE new == close_acceptor(sock) \o [i \in 1..Len(eps) |-> <<"server", i>>]
  <2>1. Destructors = new
    BY <1>2, Zenon DEF Destructors
  <2>2. Owned(fds, sock, eps)
    BY <1>1, <1>4, Zenon DEF Alive
  <2>3. Alive("destroy", fds, sock, eps, new)
    BY <1>1, <2>2, DestructorsAlive, Zenon
  <2> HIDE DEF new
  <2>4. sv' = Process("destroy", fds, sock, eps, t, new, tries, files)
    BY <1>4, <2>1, Zenon
  <2> QED
    BY <2>3, <2>4, Zenon DEF SVInv
<1>5. CASE Server
  <2>1. at = "servers"
    BY <1>2, <1>5, Zenon DEF Server
  <2>2. CASE sv' = IoContext
    <3>1. sv' = Process("servers", Opened(fds, "epoll"), sock, Append(eps, Lowest(fds)), thr, due, tries, files)
      BY <1>1, <2>1, <2>2, Zenon DEF IoContext, Process
    <3>2. Alive("servers", Opened(fds, "epoll"), sock, Append(eps, Lowest(fds)), due)
      BY <1>1, <2>1, ContextAlive, Zenon
    <3> QED
      BY <3>1, <3>2, Zenon DEF SVInv
  <2>3. CASE sv' = [sv EXCEPT !.at = "destroy", !.due = Destructors]
    <3>1. sv' = Process("destroy", fds, sock, eps, thr, Destructors, tries, files)
      BY <1>1, <2>3, Zenon DEF Process
    <3> QED
      BY <1>4, <2>1, <3>1, Zenon
  <2> QED
    BY <1>5, <2>2, <2>3, Zenon DEF Server
<1>6. CASE Serve
  <2>1. at \in {"servers", "serve"} /\ Len(eps) = Num
    BY <1>2, <1>6, Zenon DEF Serve
  <2>2. PICK i : \/ sv' = [sv EXCEPT !.thr[i] = "running", !.at = IF i = Num THEN "join" ELSE "serve"]
                 \/ sv' = [sv EXCEPT !.at = "destroy", !.due = Destructors]
    BY <1>6, Zenon DEF Serve
  <2>3. CASE sv' = [sv EXCEPT !.thr[i] = "running", !.at = IF i = Num THEN "join" ELSE "serve"]
    <3> DEFINE to == IF i = Num THEN "join" ELSE "serve"
               t == [thr EXCEPT ![i] = "running"]
    <3>1. sv' = Process(to, fds, sock, eps, t, due, tries, files)
      BY <1>1, <2>3, Zenon DEF Process
    <3>2. to \in {"serve", "join"}
      BY Zenon
    <3> HIDE DEF to, t
    <3> QED
      BY <1>3, <2>1, <3>1, <3>2, Zenon
  <2>4. CASE sv' = [sv EXCEPT !.at = "destroy", !.due = Destructors]
    <3>1. sv' = Process("destroy", fds, sock, eps, thr, Destructors, tries, files)
      BY <1>1, <2>4, Zenon DEF Process
    <3> QED
      BY <1>4, <2>1, <3>1, Zenon
  <2> QED
    BY <2>2, <2>3, <2>4, Zenon
<1>7. ASSUME NEW i \in 1..Num, ThreadEnds(i) PROVE SVInv'
  <2> DEFINE t == [thr EXCEPT ![i] = "ended"]
  <2>1. sv' = Process(at, fds, sock, eps, t, due, tries, files)
    BY <1>1, <1>7, Zenon DEF ThreadEnds, Process
  <2> HIDE DEF t
  <2> QED
    BY <1>3, <2>1, Zenon
<1>8. ASSUME NEW i \in 1..Num, Join(i) PROVE SVInv'
  <2> DEFINE t == [thr EXCEPT ![i] = "joined"]
  <2>1. at = "join"
    BY <1>2, <1>8, Zenon DEF Join
  <2>2. CASE i = Num
    <3>1. sv' = Process("destroy", fds, sock, eps, t, Destructors, tries, files)
      BY <1>1, <1>8, <2>2, Zenon DEF Join, Process
    <3> HIDE DEF t
    <3> QED
      BY <1>4, <2>1, <3>1, Zenon
  <2>3. CASE i # Num
    <3>1. sv' = Process(at, fds, sock, eps, t, due, tries, files)
      BY <1>1, <1>8, <2>1, <2>3, Zenon DEF Join, Process
    <3> HIDE DEF t
    <3> QED
      BY <1>3, <3>1, Zenon
  <2> QED
    BY <2>2, <2>3, Zenon
<1> QED
  BY <1>5, <1>6, <1>7, <1>8, Zenon DEF Runs

\* The destructors, and the application.
LEMMA SVEnds ==
    ASSUME SVInv, Destroys \/ OpensFile \/ TriesAgain
    PROVE  SVInv'
<1>1. PICK at, fds, sock, eps, thr, due, tries, files :
          sv = Process(at, fds, sock, eps, thr, due, tries, files) /\ Alive(at, fds, sock, eps, due)
  BY Zenon DEF SVInv
<1>2. sv.at = at /\ sv.fds = fds /\ sv.sock = sock /\ sv.eps = eps /\ sv.thr = thr /\ sv.due = due
  BY <1>1, Zenon DEF Process
<1>3. CASE OpensFile
  <2>1. sv' = Process(at, Opened(fds, "file"), sock, eps, thr, due, tries, files + 1)
    BY <1>1, <1>3, Zenon DEF OpensFile, Process
  <2>2. Alive(at, Opened(fds, "file"), sock, eps, due)
    BY <1>1, FileAlive, Zenon
  <2> QED
    BY <2>1, <2>2, Zenon DEF SVInv
<1>4. CASE TriesAgain
  <2>1. at = "gone" /\ Descriptors(fds) /\ Filed(fds)
    BY <1>1, <1>2, <1>4, Zenon DEF TriesAgain, Alive
  <2>2. sv' = Acceptor(fds, sv.tries + 1, sv.files)
    BY <1>2, <1>4, Zenon DEF TriesAgain
  <2> QED
    BY <2>1, <2>2, AcceptorAlive DEF SVInv
<1>5. CASE Destroys
  <2>1. at = "destroy" /\ due \in Seq(Dues) /\ Descriptors(fds)
    BY <1>1, <1>2, <1>5, Zenon DEF Destroys, Alive
  <2>2. CASE due = <<>>
    <3>1. sv' = Process("gone", fds, sock, eps, thr, due, tries, files)
      BY <1>1, <1>2, <1>5, <2>2, Zenon DEF Destroys, Process
    <3>2. Filed(fds)
      BY <1>1, <2>1, <2>2 DEF Alive, Pending, Filed
    <3>3. Alive("gone", fds, sock, eps, due)
      BY <1>1, <3>2, Zenon DEF Alive, Begun
    <3> QED
      BY <3>1, <3>3, Zenon DEF SVInv
  <2>3. CASE due # <<>>
    <3> DEFINE d == Head(due)
    <3>1. d \in Dues
      BY <2>1, <2>3
    <3>2. PICK w \in {"close", "server", "thread"}, n \in Nat : d = <<w, n>>
      BY <3>1 DEF Dues
    <3>3. d[1] = w /\ d[2] = n
      BY <3>2
    <3>4. CASE w = "close"
      <4>1. sv' = Process("destroy", Closed(fds, n), sock, eps, thr, Tail(due), tries, files)
        BY <1>1, <1>2, <1>5, <2>1, <2>3, <3>3, <3>4, ZenonT(60) DEF Destroys, Process
      <4>2. Alive("destroy", Closed(fds, n), sock, eps, Tail(due))
        BY <1>1, <2>1, <2>3, <3>2, <3>4, CloseAlive, Zenon
      <4> QED
        BY <4>1, <4>2, Zenon DEF SVInv
    <3>5. CASE w = "server"
      <4> DEFINE new == (close_acceptor(sock) \o <<<<"thread", n>>, <<"close", eps[n]>>>>) \o Tail(due)
      <4>1. close_server(n) \o Tail(due) = new
        BY <1>2, Zenon DEF close_server
      <4>2. Alive("destroy", fds, sock, eps, new)
        BY <1>1, <2>1, <2>3, <3>2, <3>5, ServerAlive
      <4> HIDE DEF new
      <4>3. sv' = Process("destroy", fds, sock, eps, thr, new, tries, files)
        BY <1>1, <1>2, <1>5, <2>1, <2>3, <3>3, <3>5, <4>1, Zenon DEF Destroys, Process
      <4> QED
        BY <4>2, <4>3, Zenon DEF SVInv
    <3>6. CASE w = "thread"
      <4>1. \/ sv' = Process("terminated", fds, sock, eps, thr, due, tries, files)
            \/ sv' = Process("destroy", fds, sock, eps, thr, Tail(due), tries, files)
        BY <1>1, <1>2, <1>5, <2>1, <2>3, <3>3, <3>6 DEF Destroys, Process
      <4>2. Alive("terminated", fds, sock, eps, due)
        BY <1>1, MovesAlive, Zenon
      <4>3. Alive("destroy", fds, sock, eps, Tail(due))
        BY <1>1, <2>1, <2>3, <3>3, <3>6, ThreadAlive, Zenon
      <4> QED
        BY <4>1, <4>2, <4>3, ZenonT(60) DEF SVInv
    <3> QED
      BY <3>4, <3>5, <3>6, Zenon
  <2> QED
    BY <2>2, <2>3, Zenon
<1> QED
  BY <1>3, <1>4, <1>5, Zenon

(* While a thread serves, the number in its Acceptor is the listening socket and the handle of *)
(* its IoContext an epoll handle; and once a server is gone none of its descriptors is left    *)
(* open, whichever call failed and whichever number the kernel gave it: for any number of      *)
(* threads, of servers one after the other, and of files the application opens meanwhile.      *)
THEOREM ListenerStays == SVSpec => []ListenerKept
<1>1. SVInit => SVInv
  BY SVInitially, Zenon
<1>2. SVInv /\ [SVNext]_svVars => SVInv'
  <2> SUFFICES ASSUME SVInv, [SVNext]_svVars PROVE SVInv'
    BY Zenon
  <2>1. CASE SVNext
    <3>1. Builds \/ Runs \/ Destroys \/ OpensFile \/ TriesAgain
      BY <2>1, Zenon DEF SVNext, Builds, Runs
    <3> QED
      BY <3>1, SVBuilds, SVRuns, SVEnds, Zenon
  <2>2. CASE UNCHANGED svVars
    BY <2>2 DEF svVars, SVInv
  <2> QED
    BY <2>1, <2>2, Zenon
<1>3. SVInv => ListenerKept
  <2> SUFFICES ASSUME SVInv PROVE ListenerKept
    BY Zenon
  <2>1. PICK at, fds, sock, eps, thr, due, tries, files :
            sv = Process(at, fds, sock, eps, thr, due, tries, files) /\ Alive(at, fds, sock, eps, due)
    BY Zenon DEF SVInv
  <2>2. sv.at = at /\ sv.fds = fds /\ sv.sock = sock /\ sv.eps = eps
    BY <2>1, Zenon DEF Process
  <2> QED
    BY <2>1, <2>2, Zenon DEF Alive, Held, Filed, ListenerKept
<1> QED
  BY <1>1, <1>2, <1>3, PTL DEF SVSpec

-----------------------------------------------------------------------------
(***************************************************************************)
(* HttpClient.                                                             *)
(***************************************************************************)

\* The states of an HttpClient.
Clients ==
    [has_connected : BOOLEAN, in_progress : BOOLEAN, sync : BOOLEAN, promise : Nat, weak : Nat,
     cb : Nat, on_chunk : BOOLEAN, last_domain : Hosts \cup {NoHost}, closed : BOOLEAN, mem : Int,
     rest : BOOLEAN, answers : Seq(Nat), stuck : BOOLEAN]

\* No call is answered twice, and the call that cb_ belongs to, or that weak_ was set for while
\* the promise is there, is not answered yet.
Settled(c, p, n) ==
    /\ c \in Clients /\ c.promise = p /\ Len(c.answers) = n
    /\ \A r \in 1..n : c.answers[r] <= 1
    /\ c.cb # 0 => c.cb \in 1..n /\ c.answers[c.cb] = 0
    /\ c.weak # 0 /\ c.weak = p => c.weak \in 1..n /\ c.answers[c.weak] = 0 /\ c.cb # c.weak

\* Between two calls: no call is answered twice, and the one cb_ belongs to not at all yet.
Done(c, p, n) ==
    /\ c \in Clients /\ c.promise = p /\ Len(c.answers) = n
    /\ \A r \in 1..n : c.answers[r] <= 1
    /\ c.cb # 0 => c.cb \in 1..n /\ c.answers[c.cb] = 0

\* A client that has settled its request is done with it.
LEMMA SettledDone == ASSUME NEW c, NEW p, NEW n, Settled(c, p, n) PROVE Done(c, p, n)
BY Zenon DEF Settled, Done

\* d differs from c in nothing that says who is answered.
Alike(c, d) ==
    d \in Clients /\ d.promise = c.promise /\ d.answers = c.answers /\ d.cb = c.cb /\ d.weak = c.weak

\* Settled speaks of none of the fields in which alike clients differ.
LEMMA AlikeSettled ==
    ASSUME NEW c, NEW d, NEW p, NEW n, Settled(c, p, n), Alike(c, d)
    PROVE  Settled(d, p, n)
BY Zenon DEF Settled, Alike

\* A client that waits for ever is alike.
LEMMA Stalls == ASSUME NEW c \in Clients PROVE Alike(c, [c EXCEPT !.stuck = TRUE])
BY Zenon DEF Clients, Alike

\* close() leaves a client alike.
LEMMA Closes == ASSUME NEW c \in Clients PROVE Alike(c, close(c))
BY Zenon DEF Clients, Alike, close

\* What is left to read leaves a client alike.
LEMMA Rests == ASSUME NEW c \in Clients, NEW b \in BOOLEAN PROVE Alike(c, [c EXCEPT !.rest = b])
BY Zenon DEF Clients, Alike

\* A connection leaves a client alike.
LEMMA Connects == ASSUME NEW c \in Clients PROVE Alike(c, [c EXCEPT !.has_connected = TRUE])
BY Zenon DEF Clients, Alike

\* One more answer to the call r.
LEMMA Answers ==
    ASSUME NEW c \in Clients, NEW r \in 1..Len(c.answers)
    PROVE  LET d == Answered(c, r)
           IN  /\ d \in Clients /\ d.promise = c.promise /\ d.cb = c.cb /\ d.weak = c.weak
               /\ d.answers = [c.answers EXCEPT ![r] = @ + 1]
<1> DEFINE s == [c.answers EXCEPT ![r] = @ + 1]
<1>1. c.answers \in Seq(Nat)
  BY Zenon DEF Clients
<1>2. s \in Seq(Nat)
  BY <1>1
<1>3. Answered(c, r) = [c EXCEPT !.answers = s]
  BY <1>1 DEF Answered
<1> HIDE DEF s
<1>4. Answered(c, r) \in Clients
  BY <1>2, <1>3, Zenon DEF Clients
<1>5. /\ Answered(c, r).promise = c.promise /\ Answered(c, r).cb = c.cb /\ Answered(c, r).weak = c.weak
      /\ Answered(c, r).answers = s
  BY <1>2, <1>3, Zenon DEF Clients
<1> QED
  BY <1>4, <1>5, Zenon DEF s

\* The callback is gone and the client is free.
LEMMA Frees ==
    ASSUME NEW a \in Clients, NEW d, d = [a EXCEPT !.cb = 0, !.in_progress = FALSE]
    PROVE  d \in Clients /\ d.promise = a.promise /\ d.cb = 0 /\ d.weak = a.weak /\ d.answers = a.answers
<1>1. d \in Clients
  BY Zenon DEF Clients
<1>2. d.promise = a.promise /\ d.cb = 0 /\ d.weak = a.weak /\ d.answers = a.answers
  BY Zenon DEF Clients
<1> QED
  BY <1>1, <1>2, Zenon

\* callback() answers no request but the one that is out.
LEMMA CallbackSettles ==
    ASSUME NEW c, NEW p, NEW n, Settled(c, p, n)
    PROVE  Settled(callback(c), p, n)
<1> DEFINE d == callback(c)
<1>0. /\ c \in Clients /\ n \in Nat /\ c.answers \in Seq(Nat) /\ Len(c.answers) = n
  BY DEF Settled, Clients
<1>1. CASE c.weak # 0 /\ c.weak = c.promise
  <2> DEFINE a == Answered(c, c.weak)
  <2>1. d = [a EXCEPT !.weak = 0]
    BY <1>1, Zenon DEF callback
  <2>2. c.weak \in 1..n /\ c.answers[c.weak] = 0 /\ c.cb # c.weak
    BY <1>1, Zenon DEF Settled
  <2>3. /\ a \in Clients /\ a.promise = c.promise /\ a.cb = c.cb
        /\ a.answers = [c.answers EXCEPT ![c.weak] = @ + 1]
    BY <1>0, <2>2, Answers
  <2> HIDE DEF a
  <2>4. d \in Clients /\ d.promise = a.promise /\ d.cb = a.cb /\ d.weak = 0 /\ d.answers = a.answers
    BY <2>1, <2>3, SMTT(30) DEF Clients
  <2> HIDE DEF d
  <2>5. Len(d.answers) = n /\ \A r \in 1..n : d.answers[r] = IF r = c.weak THEN c.answers[r] + 1 ELSE c.answers[r]
    BY <1>0, <2>2, <2>3, <2>4
  <2>6. (\A r \in 1..n : c.answers[r] <= 1) /\ (c.cb # 0 => c.cb \in 1..n /\ c.answers[c.cb] = 0) /\ c.promise = p
    BY Zenon DEF Settled
  <2>7. \A r \in 1..n : d.answers[r] <= 1
    BY <1>0, <2>2, <2>5, <2>6
  <2>8. d.cb # 0 => d.cb \in 1..n /\ d.answers[d.cb] = 0
    BY <2>2, <2>3, <2>4, <2>5, <2>6, Zenon
  <2>9. d.promise = p /\ (d.weak # 0 /\ d.weak = p => d.weak \in 1..n /\ d.answers[d.weak] = 0 /\ d.cb # d.weak)
    BY <2>3, <2>4, <2>6, Zenon
  <2>10. Settled(d, p, n)
    BY <2>4, <2>5, <2>7, <2>8, <2>9 DEF Settled
  <2> QED
    BY <2>10, Zenon DEF d
<1>2. CASE ~(c.weak # 0 /\ c.weak = c.promise) /\ c.cb # 0
  <2> DEFINE a == Answered(c, c.cb)
  <2>1. d = [a EXCEPT !.cb = 0, !.in_progress = FALSE]
    BY <1>2, Zenon DEF callback
  <2>2. c.cb \in 1..n /\ c.answers[c.cb] = 0
    BY <1>2, Zenon DEF Settled
  <2>3. /\ a \in Clients /\ a.promise = c.promise /\ a.weak = c.weak
        /\ a.answers = [c.answers EXCEPT ![c.cb] = @ + 1]
    BY <1>0, <2>2, Answers, Zenon
  <2> HIDE DEF a
  <2>4. d \in Clients /\ d.promise = a.promise /\ d.cb = 0 /\ d.weak = a.weak /\ d.answers = a.answers
    <3>1. a \in Clients
      BY <2>3, Zenon
    <3> QED
      BY <2>1, <3>1, Frees, Zenon
  <2> HIDE DEF d
  <2>5. Len(d.answers) = n /\ \A r \in 1..n : d.answers[r] = IF r = c.cb THEN c.answers[r] + 1 ELSE c.answers[r]
    BY <1>0, <2>2, <2>3, <2>4
  <2>6. (\A r \in 1..n : c.answers[r] <= 1) /\ c.promise = p
    BY Zenon DEF Settled
  <2>7. \A r \in 1..n : d.answers[r] <= 1
    BY <1>0, <2>2, <2>5, <2>6, SMTT(30)
  <2>8. d.promise = p /\ d.weak = c.weak /\ (d.weak # 0 => d.weak # p)
    BY <1>2, <2>3, <2>4, <2>6, Zenon
  <2>9. Settled(d, p, n)
    BY <2>4, <2>5, <2>7, <2>8, Zenon DEF Settled
  <2> QED
    BY <2>9, Zenon DEF d
<1>3. CASE ~(c.weak # 0 /\ c.weak = c.promise) /\ c.cb = 0
  <2>1. d = [c EXCEPT !.cb = 0, !.in_progress = FALSE]
    BY <1>3, Zenon DEF callback, Answered
  <2>2. Alike(c, d)
    BY <1>0, <1>3, <2>1, Zenon DEF Clients, Alike
  <2> HIDE DEF d
  <2>3. Settled(d, p, n)
    BY <2>2, AlikeSettled, Zenon
  <2> QED
    BY <2>3, Zenon DEF d
<1> QED
  BY <1>1, <1>2, <1>3, Zenon

\* do_write() keeps the account of the answers, whatever the network does.
LEMMA WriteSettles ==
    ASSUME NEW c, NEW p, NEW n, NEW file, NEW net, Settled(c, p, n)
    PROVE  Settled(do_write(c, file, net), p, n)
<1>0. c \in Clients
  BY Zenon DEF Settled
<1>1. Settled(Write(c, net), p, n)
  BY CallbackSettles, Zenon DEF Write
<1>2. Settled([c EXCEPT !.stuck = TRUE], p, n)
  BY <1>0, Stalls, AlikeSettled, Zenon
<1>3. Settled(send_multipart_msg(c, file, net), p, n)
  <2>1. \/ send_multipart_msg(c, file, net) = [c EXCEPT !.stuck = TRUE]
        \/ send_multipart_msg(c, file, net) = Write(c, net)
        \/ send_multipart_msg(c, file, net) = callback(c)
        \/ send_multipart_msg(c, file, net) = c
    BY DEF send_multipart_msg
  <2> QED
    BY <1>1, <1>2, <2>1, CallbackSettles, Zenon
<1> QED
  BY <1>1, <1>3, Zenon DEF do_write

\* do_read() keeps the account of the answers, whatever the network does.
LEMMA ReadSettles ==
    ASSUME NEW c, NEW p, NEW n, NEW net \in Network, Settled(c, p, n)
    PROVE  Settled(do_read(c, net), p, n)
<1> DEFINE read == [c EXCEPT !.rest = net.rest]
<1>0. c \in Clients
  BY Zenon DEF Settled
<1>1. net.rest \in BOOLEAN
  BY Zenon DEF Network
<1>2. Settled(read, p, n) /\ read \in Clients
  <2>1. Alike(c, read)
    BY <1>0, <1>1, Rests, Zenon
  <2> QED
    BY <2>1, AlikeSettled, Zenon DEF Alike
<1> HIDE DEF read
<1>3. Settled(callback(read), p, n) /\ callback(read) \in Clients
  BY <1>2, CallbackSettles DEF Settled
<1>4. Settled(do_read_body(read, net), p, n)
  BY <1>2, <1>3, Stalls, AlikeSettled, Zenon DEF do_read_body
<1>5. Settled([c EXCEPT !.stuck = TRUE], p, n) /\ Settled(close(c), p, n) /\ Settled(close(callback(read)), p, n)
  BY <1>0, <1>3, Stalls, Closes, AlikeSettled, Zenon
<1>6. \/ do_read(c, net) = [c EXCEPT !.stuck = TRUE]
      \/ do_read(c, net) = close(c)
      \/ do_read(c, net) = close(callback(read))
      \/ do_read(c, net) = do_read_body(read, net)
  BY DEF do_read, read
<1> QED
  BY <1>4, <1>5, <1>6, Zenon

\* async_connect() and all it leads to keep the account of the answers.
LEMMA ConnectSettles ==
    ASSUME NEW c, NEW p, NEW n, NEW file, NEW net \in Network, Settled(c, p, n)
    PROVE  Settled(async_connect(c, file, net), p, n)
<1> DEFINE d == [c EXCEPT !.has_connected = TRUE]
           written == do_write(d, file, net)
<1>0. c \in Clients
  BY Zenon DEF Settled
<1>1. Settled(d, p, n)
  BY <1>0, Connects, AlikeSettled, Zenon
<1> HIDE DEF d
<1>2. Settled(written, p, n)
  BY <1>1, WriteSettles, Zenon
<1> HIDE DEF written
<1>3. Settled(do_read(written, net), p, n) /\ Settled(callback(c), p, n)
  BY <1>2, ReadSettles, CallbackSettles, Zenon
<1>4. \/ async_connect(c, file, net) = callback(c)
      \/ async_connect(c, file, net) = written
      \/ async_connect(c, file, net) = do_read(written, net)
  BY Zenon DEF async_connect, written, d
<1> QED
  BY <1>2, <1>3, <1>4, Zenon

\* A client at the start of its n-th call, whose promise is p and whose callback is cb.
Starting(c, p, cb, n) ==
    /\ c \in Clients /\ c.promise = p /\ n \in Nat \ {0} /\ Len(c.answers) = n
    /\ \A r \in 1..n : c.answers[r] <= 1
    /\ c.answers[n] = 0
    /\ c.cb # 0 => c.cb \in 1..n - 1 /\ c.answers[c.cb] = 0
    /\ p = 0 \/ (p = n /\ cb = 0)
    /\ cb = 0 \/ cb = n

\* Starting speaks of none of the fields in which alike clients differ.
LEMMA AlikeStarting ==
    ASSUME NEW c, NEW d, NEW p, NEW cb, NEW n, Starting(c, p, cb, n), Alike(c, d)
    PROVE  Starting(d, p, cb, n)
BY Zenon DEF Starting, Alike

\* Without a promise, a request that starts is a settled one.
LEMMA StartingSettled ==
    ASSUME NEW c, NEW p, NEW cb, NEW n, Starting(c, p, cb, n), p = 0
    PROVE  Settled(c, p, n)
BY DEF Starting, Settled

\* The error of a call that is not begun answers this call, by its promise or its callback.
LEMMA ErrorSettles ==
    ASSUME NEW c, NEW p, NEW cb, NEW n, Starting(c, p, cb, n)
    PROVE  Done(set_error_value(c, cb), p, n)
<1> DEFINE a == Answered(Answered(c, c.promise), cb)
           d == set_error_value(c, cb)
<1>0. /\ c \in Clients /\ c.answers \in Seq(Nat) /\ n \in Nat \ {0} /\ Len(c.answers) = n /\ c.promise = p
      /\ \A r \in 1..n : c.answers[r] <= 1
      /\ c.answers[n] = 0
      /\ c.cb # 0 => c.cb \in 1..n - 1 /\ c.answers[c.cb] = 0
  BY Zenon DEF Starting, Clients
<1>1. a = c \/ a = Answered(c, n)
  BY Zenon DEF Starting, Answered
<1>2. /\ a \in Clients /\ a.promise = p /\ a.cb = c.cb
      /\ a.answers = c.answers \/ a.answers = [c.answers EXCEPT ![n] = @ + 1]
  BY <1>0, <1>1, Answers
<1>3. d = [a EXCEPT !.closed = TRUE]
  BY Zenon DEF set_error_value
<1> HIDE DEF a, d
<1>4. d \in Clients /\ d.promise = a.promise /\ d.cb = a.cb /\ d.answers = a.answers
  BY <1>2, <1>3, Zenon DEF Clients
<1>5. Len(d.answers) = n /\ \A r \in 1..n : d.answers[r] = c.answers[r] \/ (r = n /\ d.answers[r] = 1)
  BY <1>0, <1>2, <1>4
<1>6. \A r \in 1..n - 1 : d.answers[r] = c.answers[r]
  BY <1>0, <1>5
<1>7. \A r \in 1..n : d.answers[r] <= 1
  BY <1>0, <1>5
<1>8. d.cb # 0 => d.cb \in 1..n /\ d.answers[d.cb] = 0
  BY <1>0, <1>2, <1>4, <1>6
<1>9. d.promise = p
  BY <1>2, <1>4, Zenon
<1>10. Done(d, p, n)
  BY <1>4, <1>5, <1>7, <1>8, <1>9, Zenon DEF Done
<1> QED
  BY <1>10, Zenon DEF d

\* A call that is begun: its callback is stored, or weak_ points to its promise.
LEMMA ReadySettles ==
    ASSUME NEW c, NEW p, NEW cb, NEW n, Starting(c, p, cb, n), NEW host \in Hosts, NEW d,
           d = [c EXCEPT !.last_domain = host, !.cb = cb, !.weak = IF p = 0 THEN @ ELSE p]
    PROVE  Settled(d, p, n)
<1> DEFINE weak == IF p = 0 THEN c.weak ELSE p
<1>0. c \in Clients /\ p \in Nat /\ n \in Nat \ {0} /\ cb \in Nat /\ weak \in Nat
  BY DEF Starting, Clients
<1>1. d = [c EXCEPT !.last_domain = host, !.cb = cb, !.weak = weak]
  BY Zenon
<1>2. weak # 0 /\ weak = p => p = n /\ cb = 0
  BY Zenon DEF Starting
<1> HIDE DEF weak
<1>3. d \in Clients
  BY <1>0, <1>1, ZenonT(60) DEF Clients
<1>4. d.promise = c.promise /\ d.answers = c.answers /\ d.cb = cb /\ d.weak = weak
  BY <1>0, <1>1, Zenon DEF Clients
<1> QED
  BY <1>0, <1>2, <1>3, <1>4 DEF Starting, Settled

\* async_request_impl answers the request at most once, and answers it when it returns
\* to a synchronous caller.
LEMMA CallDone ==
    ASSUME NEW c, NEW p, NEW cb, NEW n, Starting(c, p, cb, n),
           NEW q \in Requests, NEW file, NEW net \in Network
    PROVE  Done(async_request_impl(c, q, file, cb, net), p, n)
<1> DEFINE async == c.promise = 0
           need_switch == async /\ c.sync
           switched == [c EXCEPT !.sync = @ /\ ~async]
           begun == [switched EXCEPT !.in_progress = TRUE]
           need_reset == need_switch \/ c.last_domain \notin {NoHost, q.host}
           away == [close(begun) EXCEPT !.closed = FALSE]
           restarted == IF need_reset THEN away ELSE begun
           ready == [restarted EXCEPT !.last_domain = q.host, !.cb = cb, !.weak = IF async THEN @ ELSE c.promise]
           held == [close(begun) EXCEPT !.stuck = TRUE]
           going == IF ready.has_connected THEN do_write(ready, file, net) ELSE async_connect(ready, file, net)
<1>0. c \in Clients /\ c.promise = p
  BY Zenon DEF Starting
<1>1. Alike(c, switched)
  <2>1. (c.sync /\ ~async) \in BOOLEAN
    BY Zenon
  <2> HIDE DEF async
  <2> QED
    BY <1>0, <2>1, ZenonT(60) DEF Clients, Alike
<1> HIDE DEF switched
<1>2. Alike(switched, begun)
  <2>1. switched \in Clients
    BY <1>1, Zenon DEF Alike
  <2> QED
    BY <2>1, Zenon DEF Clients, Alike
<1> HIDE DEF begun
<1>3. Alike(begun, close(begun))
  BY <1>2, Closes, Zenon DEF Alike
<1>4. Alike(close(begun), away) /\ Alike(close(begun), held)
  <2>1. close(begun) \in Clients
    BY <1>3, Zenon DEF Alike
  <2> QED
    BY <2>1, Zenon DEF Clients, Alike
<1> HIDE DEF away, held
<1>5. /\ Starting(switched, p, cb, n) /\ Starting(begun, p, cb, n)
      /\ Starting(away, p, cb, n) /\ Starting(held, p, cb, n)
  BY <1>1, <1>2, <1>3, <1>4, AlikeStarting, Zenon
<1>6. Starting(restarted, p, cb, n)
  BY <1>5, Zenon
<1> HIDE DEF restarted, need_reset
<1>7. Settled(ready, p, n)
  <2>1. q.host \in Hosts
    BY Zenon DEF Requests
  <2>2. ready = [restarted EXCEPT !.last_domain = q.host, !.cb = cb, !.weak = IF p = 0 THEN @ ELSE p]
    BY <1>0, Zenon
  <2> HIDE DEF ready
  <2> QED
    BY <1>6, <2>1, <2>2, ReadySettles, Zenon
<1> HIDE DEF ready
<1>8. Done(going, p, n)
  BY <1>7, WriteSettles, ConnectSettles, SettledDone, ZenonT(60)
<1> HIDE DEF going
<1>9. Done(held, p, n)
  BY <1>5 DEF Starting, Done
<1>10. \/ async_request_impl(c, q, file, cb, net) = set_error_value(switched, cb)
       \/ async_request_impl(c, q, file, cb, net) = set_error_value(begun, cb)
       \/ async_request_impl(c, q, file, cb, net) = held
       \/ async_request_impl(c, q, file, cb, net) = set_error_value(restarted, cb)
       \/ async_request_impl(c, q, file, cb, net) = going
  BY Zenon DEF async_request_impl, switched, begun, held, away, restarted, need_reset, ready, going
<1> QED
  BY <1>5, <1>6, <1>8, <1>9, <1>10, ErrorSettles, Zenon

-----------------------------------------------------------------------------
\* The invariant: Done between two calls, and no promise is left unless the thread hangs.
HCInv ==
    /\ Done(hc, hc.promise, Len(hc.answers))
    /\ ~hc.stuck => hc.promise = 0

\* The next call has a number and no answer; other settings of the client are as they please.
LEMMA NumberedStarts ==
    ASSUME HCInv, Calling
    PROVE  Starting(Numbered, 0, 0, This) /\ Starting(Numbered, 0, This, This)
<1> DEFINE a == hc.answers
           s == Append(a, 0)
           d == Numbered
<1>0. hc \in Clients /\ hc.promise = 0 /\ a \in Seq(Nat) /\ hc.cb \in Nat
  BY Zenon DEF HCInv, Done, Calling, Clients
<1>1. /\ \A r \in 1..Len(a) : a[r] <= 1
      /\ hc.cb # 0 => hc.cb \in 1..Len(a) /\ a[hc.cb] = 0
  BY Zenon DEF HCInv, Done
<1> HIDE DEF a
<1>2. /\ s \in Seq(Nat) /\ Len(s) = Len(a) + 1 /\ s[Len(a) + 1] = 0
      /\ \A r \in 1..Len(a) : s[r] = a[r]
  BY <1>0
<1>3. This = Len(a) + 1 /\ This \in Nat \ {0} /\ This - 1 = Len(a)
  BY <1>0 DEF This, a
<1>4. d = [hc EXCEPT !.answers = s]
  BY Zenon DEF Numbered, a
<1> HIDE DEF s
<1>5. d \in Clients /\ d.promise = 0 /\ d.cb = hc.cb /\ d.answers = s
  BY <1>0, <1>2, <1>4, Zenon DEF Clients
<1>6. \A r \in 1..This : s[r] <= 1
  <2> SUFFICES ASSUME NEW r \in 1..This PROVE s[r] <= 1
    BY Zenon
  <2>1. CASE r \in 1..Len(a)
    BY <1>1, <1>2, <2>1, Zenon
  <2>2. CASE r = Len(a) + 1
    BY <1>2, <2>2
  <2> QED
    BY <1>0, <1>3, <2>1, <2>2
<1>7. d.cb # 0 => d.cb \in 1..This - 1 /\ s[d.cb] = 0
  BY <1>1, <1>2, <1>3, <1>5, Zenon
<1>8. d.answers[This] = 0 /\ Len(d.answers) = This
  BY <1>2, <1>3, <1>5, Zenon
<1> QED
  BY <1>3, <1>5, <1>6, <1>7, <1>8, Zenon DEF Starting

\* What the calls end with is the invariant.
LEMMA DoneKeeps ==
    ASSUME NEW n, Done(hc', 0, n)
    PROVE  HCInv'
BY Zenon DEF Done, HCInv

\* A synchronous request keeps the invariant.
LEMMA HCRequest ==
    ASSUME HCInv, NEW q \in Requests, NEW net \in Network, request(q, net)
    PROVE  HCInv'
<1> DEFINE d == [Numbered EXCEPT !.promise = This, !.sync = TRUE]
           c == async_request_impl(d, q, "none", 0, net)
<1>1. Calling /\ hc' = IF c.stuck THEN c ELSE [c EXCEPT !.in_progress = FALSE, !.promise = 0]
  BY Zenon DEF request
<1>2. Starting(Numbered, 0, 0, This)
  BY <1>1, NumberedStarts, Zenon
<1>3. This \in Nat \ {0} /\ Numbered \in Clients
  BY <1>2, Zenon DEF Starting
<1>4. /\ d \in Clients /\ d.promise = This /\ d.answers = Numbered.answers /\ d.cb = Numbered.cb
  <2>1. d \in Clients
    BY <1>3, Zenon DEF Clients
  <2>2. d.promise = This /\ d.answers = Numbered.answers /\ d.cb = Numbered.cb
    BY <1>3, Zenon DEF Clients
  <2> QED
    BY <2>1, <2>2, Zenon
<1> HIDE DEF d
<1>5. Starting(d, This, 0, This)
  BY <1>2, <1>4, Zenon DEF Starting
<1>6. Done(c, This, This)
  BY <1>5, CallDone, Zenon
<1> HIDE DEF c
<1>7. CASE c.stuck
  BY <1>1, <1>6, <1>7, Zenon DEF Done, HCInv
<1>8. CASE ~c.stuck
  <2>1. hc' = [c EXCEPT !.in_progress = FALSE, !.promise = 0] /\ c \in Clients
    BY <1>1, <1>6, <1>8, Zenon DEF Done
  <2>2. hc' \in Clients
    BY <2>1, Zenon DEF Clients
  <2>3. hc'.promise = 0 /\ hc'.answers = c.answers /\ hc'.cb = c.cb
    BY <2>1, Zenon DEF Clients
  <2>4. Done(hc', 0, This)
    BY <1>6, <2>2, <2>3, Zenon DEF Done
  <2> QED
    BY <2>4, DoneKeeps, Zenon
<1> QED
  BY <1>7, <1>8, Zenon

\* An asynchronous request, a download and an upload keep the invariant.
LEMMA HCAsync ==
    ASSUME HCInv, NEW q \in Requests, NEW net \in Network,
           \/ async_request(q, net)
           \/ download(q, net)
           \/ download_chunks(q, net)
           \/ upload_string(q, net)
           \/ upload(q, net)
    PROVE  HCInv'
<1>0. Starting(Numbered, 0, 0, This) /\ Starting(Numbered, 0, This, This)
  BY NumberedStarts, Zenon DEF async_request, download, download_chunks, upload_string, upload
<1>1. This \in Nat \ {0} /\ Numbered \in Clients
  BY <1>0, Zenon DEF Starting
<1>2. \A file : Done(async_request_impl(Numbered, q, file, This, net), 0, This)
  BY <1>0, CallDone, Zenon
<1>3. CASE async_request(q, net)
  BY <1>2, <1>3, DoneKeeps, Zenon DEF async_request
<1>4. CASE upload(q, net)
  <2>1. PICK file : hc' = async_request_impl(Numbered, q, file, This, net)
    BY <1>4, Zenon DEF upload
  <2> QED
    BY <1>2, <2>1, DoneKeeps, Zenon
<1>5. CASE download_chunks(q, net)
  <2> DEFINE d == [Numbered EXCEPT !.on_chunk = TRUE]
  <2>1. hc' = async_request_impl(d, q, "none", 0, net)
    BY <1>5, Zenon DEF download_chunks
  <2>2. Alike(Numbered, d)
    BY <1>1, Zenon DEF Clients, Alike
  <2> HIDE DEF d
  <2>3. Done(hc', 0, This)
    BY <1>0, <2>1, <2>2, AlikeStarting, CallDone, Zenon
  <2> QED
    BY <2>3, DoneKeeps, Zenon
<1>6. CASE upload_string(q, net)
  <2>1. PICK size \in {0, 1}, file \in Files \ {"none"} :
            hc' = async_request_impl([Numbered EXCEPT !.mem = size], q, file, This, net)
    BY <1>6, Zenon DEF upload_string
  <2> DEFINE d == [Numbered EXCEPT !.mem = size]
  <2>2. Alike(Numbered, d)
    BY <1>1 DEF Clients, Alike
  <2>3. hc' = async_request_impl(d, q, file, This, net)
    BY <2>1, Zenon
  <2> HIDE DEF d
  <2>4. Done(hc', 0, This)
    BY <1>0, <2>2, <2>3, AlikeStarting, CallDone, Zenon
  <2> QED
    BY <2>4, DoneKeeps, Zenon
<1>7. CASE download(q, net)
  <2> DEFINE d == [Numbered EXCEPT !.cb = This]
  <2>1. CASE hc' = callback(d)
    <3>1. d \in Clients /\ d.promise = Numbered.promise /\ d.answers = Numbered.answers /\ d.cb = This
      BY <1>1, Zenon DEF Clients
    <3> HIDE DEF d
    <3>2. Settled(d, 0, This)
      BY <1>0, <3>1 DEF Starting, Settled
    <3>3. Done(hc', 0, This)
      BY <2>1, <3>2, CallbackSettles, SettledDone, Zenon
    <3> QED
      BY <3>3, DoneKeeps, Zenon
  <2>2. CASE hc' = async_request_impl(Numbered, q, "none", This, net)
    BY <1>2, <2>2, DoneKeeps, ZenonT(60)
  <2> QED
    BY <1>7, <2>1, <2>2, Zenon DEF download
<1> QED
  BY <1>3, <1>4, <1>5, <1>6, <1>7, Zenon

(* No call of the client is answered twice, through its promise or its callback, although a   *)
(* failed write is reported and the call then goes on to read, although the callback of an     *)
(* unanswered call stays stored, and in whatever order calls of all kinds follow one another.  *)
THEOREM CallsAnsweredOnce == HCSpec => []AnsweredOnce
<1>1. HCInit => HCInv
  BY DEF HCInit, HCInv, Done, Clients
<1>2. HCInv /\ [HCNext]_hcVars => HCInv'
  <2> SUFFICES ASSUME HCInv, [HCNext]_hcVars PROVE HCInv'
    BY Zenon
  <2>1. CASE HCNext
    BY <2>1, HCRequest, HCAsync, Zenon DEF HCNext
  <2>2. CASE UNCHANGED hcVars
    BY <2>2, Zenon DEF hcVars, HCInv
  <2> QED
    BY <2>1, <2>2, Zenon
<1>3. HCInv => AnsweredOnce
  <2> SUFFICES ASSUME HCInv PROVE AnsweredOnce
    BY Zenon
  <2>1. hc.answers \in Seq(Nat) /\ \A r \in 1..Len(hc.answers) : hc.answers[r] <= 1
    BY Zenon DEF HCInv, Done, Clients
  <2> QED
    BY <2>1 DEF AnsweredOnce
<1> QED
  BY <1>1, <1>2, <1>3, PTL DEF HCSpec

=============================================================================
