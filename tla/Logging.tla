------------------------------- MODULE Logging ------------------------------
(***************************************************************************)
(* The log file of the server: logWrapper.hpp on top of easylogging++.     *)
(*                                                                         *)
(* A Configurations object is a list of (level, type, value); setting a    *)
(* value for Level::Global sets it for every level.  reconfigureLogger     *)
(* copies the caller's list into the logger's, entry by entry, and builds  *)
(* the typed maps the logger works with, in which a level without a value  *)
(* of its own falls back on the one of Level::Global.                      *)
(*                                                                         *)
(* All levels share one file.  A line is only flushed, and the size of the *)
(* file only looked at, when the count of unflushed lines OF ITS LEVEL     *)
(* reaches the threshold; a file found at its limit is truncated.          *)
(*                                                                         *)
(* Every line has length 1.  A file that cannot be opened when the program *)
(* starts is not tried again; a write that fails leaves the stream failed  *)
(* until the file is truncated, which opens it anew.                       *)
(*                                                                         *)
(* The calls are those of one thread: ELPP_THREAD_SAFE is defined behind   *)
(* the header it should change (logWrapper.hpp:3,5), so that the locks of  *)
(* the library are empty.                                                  *)
(***************************************************************************)
EXTENDS Integers, SequencesExt

CONSTANTS
    Levels,        \* the levels of messages, as a sequence: kMinValid .. kMaxValid
    Sizes,         \* values of MaxLogFileSize; 0 is no limit
    Thresholds,    \* values of LogFlushThreshold
    MaxOldSize,    \* what an earlier run may have left in the file
    MaxSets        \* bound on the calls that change the caller's settings

(***************************************************************************)
(* lg: conf, the caller's list and set, the calls made on it; wanted, what *)
(* the caller set last for each level and type, and given, what it was     *)
(* when the logger was configured; reg, typed and unflushed, the logger's  *)
(* list, its typed maps and m_unflushedCount; file, the size of the file   *)
(* and its stream, which is good, failed or none.                          *)
(***************************************************************************)
VARIABLE lg

lgVars == <<lg>>

Level == Range(Levels)

Types == {"Enabled", "ToFile", "MaxLogFileSize", "LogFlushThreshold"}

\* What the caller may set: InitLog only ever switches a level or the file off.
ValuesOf(t) == CASE t \in {"Enabled", "ToFile"} -> {FALSE}
               [] t = "MaxLogFileSize" -> Sizes
               [] t = "LogFlushThreshold" -> Thresholds

-----------------------------------------------------------------------------
(***************************************************************************)
(* Configurations.                                                         *)
(***************************************************************************)

Find(reg, l, t) == SelectInSeq(reg, LAMBDA e : e.level = l /\ e.type = t)

\* registerNew at the end of the list, or setValue in place.
Put(reg, l, t, v) ==
    LET i == Find(reg, l, t)
        e == [level |-> l, type |-> t, value |-> v]
    IN  IF i = 0 THEN Append(reg, e) ELSE [reg EXCEPT ![i] = e]

\* unsafeSetGlobally without the global level: Put for each level.
Everywhere(reg, t, v) ==
    LET missing == SelectSeq(Levels, LAMBDA l : Find(reg, l, t) = 0)
    IN  [i \in DOMAIN reg |-> IF reg[i].type = t /\ reg[i].level # "Global"
                              THEN [reg[i] EXCEPT !.value = v] ELSE reg[i]]
        \o [i \in DOMAIN missing |-> [level |-> missing[i], type |-> t, value |-> v]]

set(reg, l, t, v) ==
    IF l = "Global" THEN Everywhere(Put(reg, l, t, v), t, v) ELSE Put(reg, l, t, v)

setToDefault ==
    FoldLeft(LAMBDA r, d : set(r, "Global", d[1], d[2]), <<>>,
             << <<"Enabled", TRUE>>, <<"ToFile", TRUE>>, <<"MaxLogFileSize", 0>>,
                <<"LogFlushThreshold", 0>> >>)

\* Copying the entries from the last to the first sets Level::Global after the
\* levels.
set_from_last(reg, base) ==
    FoldRight(LAMBDA e, r : set(r, e.level, e.type, e.value), base, reg)

setFromBase(reg, base) ==
    FoldLeft(LAMBDA r, e : set(r, e.level, e.type, e.value), reg, base)

-----------------------------------------------------------------------------
(***************************************************************************)
(* TypedConfigurations: for each type a map from some levels to values.    *)
(***************************************************************************)

\* setValue: the first value goes to Level::Global, whatever its level is, and
\* one that is equal to the value there is not added.
setValue(map, l, v) ==
    IF map = <<>> THEN "Global" :> v
    ELSE IF "Global" \in DOMAIN map /\ map["Global"] = v THEN map
    ELSE (l :> v) @@ map

\* insertFile, for the file names of all levels: without a stream nothing goes to the file.
insertFile(typed, stream) ==
    IF stream # "none" THEN typed
    ELSE [typed EXCEPT !["ToFile"] = FoldLeft(LAMBDA m, l : setValue(m, l, FALSE), @,
                                              <<"Global">> \o Levels)]

build(reg, stream) ==
    insertFile([t \in Types |-> FoldLeft(LAMBDA m, e : setValue(m, e.level, e.value), <<>>,
                                         SelectSeq(reg, LAMBDA e : e.type = t))],
               stream)

getConfigByVal(typed, t, l) ==
    IF l \in DOMAIN typed[t] THEN typed[t][l] ELSE typed[t]["Global"]

\* getSizeOfFile is at least m: a failed stream says -1, which is the largest size_t.
Reaches(file, m) == file.stream = "failed" \/ file.size >= m

\* unsafeValidateFileRolling: the file behind it.
validateFileRolling(typed, l, file) ==
    LET m == getConfigByVal(typed, "MaxLogFileSize", l)
    IN  IF file.stream # "none" /\ m # 0 /\ Reaches(file, m)
        THEN [stream |-> "good", size |-> 0] ELSE file

\* The levels of the list with a limit, each checked in turn.
Limited(reg) ==
    SelectSeq(reg, LAMBDA e : e.type = "MaxLogFileSize" /\ e.value # 0)

-----------------------------------------------------------------------------
(***************************************************************************)
(* The calls.                                                              *)
(***************************************************************************)

NoneUnflushed == [l \in Level |-> 0]

Default == [l \in Level, t \in Types |->
               IF t \in {"Enabled", "ToFile"} THEN TRUE ELSE 0]

\* newFileStream: what an earlier run left in the file is kept.
newFileStream == {[stream |-> "good", size |-> n] : n \in {0, MaxOldSize}}
                 \cup {[stream |-> "none", size |-> 0]}

\* Storage registers the default logger with the default configuration.
LGInit ==
    \E file \in newFileStream :
        lg = [conf |-> setToDefault, set |-> 0,
              wanted |-> Default, given |-> Default,
              reg |-> setToDefault, typed |-> build(setToDefault, file.stream),
              unflushed |-> NoneUnflushed, file |-> file]

Wants(ls, t, v) ==
    [l \in Level, u \in Types |-> IF l \in ls /\ u = t THEN v ELSE lg.wanted[l, u]]

\* Configurations::set, on the caller's object
sets(l, t, v) ==
    /\ lg.set < MaxSets
    /\ lg' = [lg EXCEPT !.conf = set(@, l, t, v), !.set = @ + 1,
                        !.wanted = Wants(IF l = "Global" THEN Level ELSE {l}, t, v)]

\* Configurations::setGlobally, without the global level
setGlobally(t, v) ==
    /\ lg.set < MaxSets
    /\ lg' = [lg EXCEPT !.conf = Everywhere(@, t, v), !.set = @ + 1,
                        !.wanted = Wants(Level, t, v)]

toFile(typed, l) == getConfigByVal(typed, "ToFile", l)

\* Logger::flush(level, fs): the file behind it.
flush(typed, l, file) == validateFileRolling(typed, l, file)

\* Logger::flush(): every level that goes to the file, with the maps as they are.
FlushAll(typed, file) ==
    FoldLeft(LAMBDA f, l : IF toFile(typed, l) THEN flush(typed, l, f) ELSE f, file, Levels)

\* Logger::configure, through Loggers::reconfigureLogger
reconfigureLogger ==
    LET reg   == setFromBase(lg.reg, lg.conf)
        typed == build(reg, lg.file.stream)
    IN  lg' = [lg EXCEPT
                 !.given = lg.wanted, !.reg = reg, !.typed = typed,
                 !.unflushed = NoneUnflushed,
                 !.file = FoldLeft(LAMBDA f, e : validateFileRolling(typed, e.level, f),
                                   FlushAll(lg.typed, @), Limited(reg))]

\* Writer::initializeLogger: m_proceed
proceeds(l) == getConfigByVal(lg.typed, "Enabled", l)

isFlushNeeded(l, n) == n >= getConfigByVal(lg.typed, "LogFlushThreshold", l)

\* DefaultLogDispatchCallback::dispatch with a stream that takes the line.
Written(l) ==
    LET n    == lg.unflushed[l] + 1
        file == [lg.file EXCEPT !.size = @ + 1]
    IN  IF isFlushNeeded(l, n)
        THEN [lg EXCEPT !.unflushed[l] = 0, !.file = flush(lg.typed, l, file)]
        ELSE [lg EXCEPT !.unflushed[l] = n, !.file = file]

\* DefaultLogDispatchCallback: the disk may be full, and a stream that has failed takes no
\* line.
handle(l) ==
    /\ toFile(lg.typed, l)
    /\ lg.file.stream = "good"
    /\ lg' = Written(l) \/ lg' = [lg EXCEPT !.file.stream = "failed"]

\* LogDispatcher::dispatch; StrictLogFileSizeCheck is never set.
dispatch(l) == proceeds(l) /\ handle(l)

\* Bound: without a limit the file grows for ever.
MaxLogged == MaxOldSize + Max(Sizes)

\* Writer::processDispatch and triggerDispatch: one message.
processDispatch(l) == lg.file.size < MaxLogged /\ dispatch(l)

LGNext ==
    \/ \E t \in Types : \E v \in ValuesOf(t) :
          setGlobally(t, v) \/ \E l \in Level \cup {"Global"} : sets(l, t, v)
    \/ reconfigureLogger
    \/ \E l \in Level : processDispatch(l)

-----------------------------------------------------------------------------
On == {l \in Level : lg.given[l, "Enabled"] /\ lg.given[l, "ToFile"]}

\* The most lines a level may have written since it last looked at the file.
Unseen(l) == Max({lg.given[l, "LogFlushThreshold"] - 1, 0})

\* When the caller gave every level a limit before it configured the logger, the
\* log file never holds more than the largest limit allows, less one, and what the
\* levels may write before one of them reaches its threshold: the limit itself is
\* not kept, because only a flush looks at it, but the excess is bounded by the
\* settings the caller made, for whichever levels, in whatever order and however
\* often, and by no setting the copy or the typed maps lost on the way
\* (setFromBase, setValue, flush, unsafeValidateFileRolling).
LogFileBounded ==
    (\A l \in Level : lg.given[l, "MaxLogFileSize"] # 0) =>
        lg.file.size <= Max({lg.given[l, "MaxLogFileSize"] : l \in Level}) - 1
                     + MapThenSumSet(Unseen, On)
=============================================================================
