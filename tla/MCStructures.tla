---------------------------- MODULE MCStructures ----------------------------
(***************************************************************************)
(* The parts of the program that do not meet in one state: the containers  *)
(* of lib/, the cache, the epoll server and the client of core/, the       *)
(* buffer of a request, downloads, the router, sessions, the log file and  *)
(* the start and end of the server.  A behaviour is one of one of them,    *)
(* chosen by part; the others stay in an initial state.                    *)
(***************************************************************************)
EXTENDS ListQueue, BlockQueue, ArrayQueue, ByteBuffer, FastCache, EpollServer, HttpClient,
        RequestBuffer, Download, Router, Sessions, ServerLife

CONSTANTS
    Value, Url, FileUrl, Pattern, UrlPart

VARIABLES
    part,
    lg

LG == INSTANCE Logging WITH
        Levels <- <<"Error", "Info">>, Sizes <- {0, 2}, Thresholds <- {0, 2},
        MaxOldSize <- 2, MaxSets <- 3

\* The epoll server with room for one connection less, so that one can be too many.
ES == INSTANCE EpollServer WITH MaxUsers <- MaxUsers - 1

\* The keys are in different shards.
MCShardOf == [k \in Keys |-> IF k = CHOOSE x \in Keys : TRUE THEN 1 ELSE 2]

\* The urls: one of a handler and of a check, one of a file, and STATIC_RESOURCE.
MCUrls     == {Url, FileUrl, StaticUrl}
MCWsUrls   == {Url}
MCDotted   == {FileUrl}
MCPatterns == {Pattern}
MCMatches  == {<<Pattern, Url>>}
MCParts    == {UrlPart}
MCOccurs   == {<<UrlPart, Url>>, <<UrlPart, StaticUrl>>}

Aspect(b, a) == [before |-> b, after |-> a]

MCAspects ==
    {<<>>, <<Aspect(TRUE, FALSE), Aspect(TRUE, TRUE)>>,
     <<Aspect(FALSE, TRUE), Aspect(TRUE, TRUE), Aspect(TRUE, TRUE)>>}

MCValues   == {Value}
MCCreators == Producers

-----------------------------------------------------------------------------
Subjects == {"list", "block", "array", "buffer", "cache", "epoll", "full", "timer", "client", "request",
             "download", "router", "log", "sessions", "life"}

StructInit ==
    /\ part \in Subjects
    /\ Init /\ BQInit /\ AQInit /\ BBInit /\ FCInit /\ ESInit
    /\ HCInit /\ RTInit
    /\ RBInit /\ (part # "request" => rb.kind = "string")
    /\ DLInit
    /\ part # "download" => /\ dl.type = "CHUNKED" /\ dl.size = 0
                            /\ dl.start = NoHeader /\ dl.range = NoHeader
    /\ LG!LGInit /\ (part # "log" => lg.file = [stream |-> "good", size |-> 0])
    /\ SSInit
    /\ SVInit /\ (part # "life" => sv.fds = <<>>)

array == <<q, head, qtail, readableCnt, writeableCnt, at, accepted, received>>
bytes == <<buffer, readPos, writePos, due>>
cache == <<now, container, sweeper, run_flag>>
epoll == <<clock, timer, opened, watch, peer, clients, main, tasks, worker, active>>

small == <<vars, bqVars, array, bytes>>

single == <<hc, rb, dl, rt, lg, ss, sv>>

List     == part = "list"   /\ Next /\ UNCHANGED <<part, bqVars, array, bytes, cache, epoll, single>>
Blocking == part = "block"  /\ BQNext /\ UNCHANGED <<part, vars, array, bytes, cache, epoll, single>>
Array    == part = "array"  /\ AQNext /\ UNCHANGED <<part, vars, bqVars, bytes, cache, epoll, single>>
Bytes    == part = "buffer" /\ BBNext /\ UNCHANGED <<part, vars, bqVars, array, cache, epoll, single>>
Cache    == part = "cache"  /\ FCNext /\ UNCHANGED <<part, small, epoll, single>>
Epoll    == part = "epoll"  /\ ESNext /\ UNCHANGED <<part, small, cache, single>>

Full     == part = "full"   /\ ES!ESNext /\ UNCHANGED <<part, small, cache, single>>

\* The calls of the timer alone, for more ids than the server has connections here.
Timer ==
    /\ part = "timer" /\ timer.ok
    /\ \/ clock < 2 /\ clock' = clock + 1 /\ UNCHANGED timer
       \/ /\ UNCHANGED clock
          /\ \/ \E id \in 1..4, garbage \in BOOLEAN :
                   timer' \in {add(timer, id, clock + 1, garbage), add(timer, id, clock + 2, garbage),
                              doWork(timer, id, garbage)}
             \/ \E id \in 1..4 : Has(timer, id) /\ timer' = adjust(timer, id, clock + 2)
             \/ IsDue(timer, clock) /\ timer' = pop_first(timer)
             \/ timer' = NewTimer
    /\ UNCHANGED <<part, small, cache, opened, watch, peer, clients, main, tasks, worker, active, single>>

others == <<part, small, cache, epoll>>

Client  == part = "client"   /\ HCNext /\ UNCHANGED <<others, rb, dl, rt, lg, ss, sv>>
Request == part = "request"  /\ RBNext /\ UNCHANGED <<others, hc, dl, rt, lg, ss, sv>>
Downs   == part = "download" /\ DLNext /\ UNCHANGED <<others, hc, rb, rt, lg, ss, sv>>
Routing == part = "router"   /\ RTNext /\ UNCHANGED <<others, hc, rb, dl, lg, ss, sv>>
Log     == part = "log"      /\ LG!LGNext /\ UNCHANGED <<others, hc, rb, dl, rt, ss, sv>>
Session == part = "sessions" /\ SSNext /\ UNCHANGED <<others, hc, rb, dl, rt, lg, sv>>
Life    == part = "life"     /\ SVNext /\ UNCHANGED <<others, hc, rb, dl, rt, lg, ss>>

StructNext ==
    \/ List \/ Blocking \/ Array \/ Bytes \/ Cache \/ Epoll \/ Full \/ Timer
    \/ Client \/ Request \/ Downs \/ Routing \/ Log \/ Session \/ Life

structVars == <<others, single>>

StructSpec == StructInit /\ [][StructNext]_structVars

-----------------------------------------------------------------------------
(***************************************************************************)
(* The properties are those of the modules, each named after what it is    *)
(* about.  Here is the one of the module that is instantiated.             *)
(***************************************************************************)

\* Log file: its excess over the limit is bounded by the settings.
LogFileBounded == LG!LogFileBounded
=============================================================================
