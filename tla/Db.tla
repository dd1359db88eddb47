--------------------------------- MODULE Db ---------------------------------
(***************************************************************************)
(* The databases of xmdb.c: the key space and the expiry times of each,    *)
(* lazy expiration on every lookup, and the reference counts of the value  *)
(* objects.                                                                *)
(*                                                                         *)
(* Both dictionaries of a database are taken for what DictMap promises: a  *)
(* partial map.  A function that changes them is an operator on the memory *)
(* m; an action applies the operators in the order of the C calls.  The    *)
(* assertions of xmdb.c are modelled: a failed one sets "aborted".         *)
(***************************************************************************)
EXTENDS Integers, FiniteSets

CONSTANTS
  Keys,     \* the keys
  Objs,     \* the value objects that can be allocated at a time
  DbNum,    \* server.dbnum
  MaxTime,  \* bound: the last time the clock shows
  NULL,     \* the null pointer
  Unread    \* history: a key the script has not read

ASSUME ConstantsAssumption ==
  /\ IsFiniteSet(Keys) /\ IsFiniteSet(Objs)
  /\ DbNum \in Nat \ {0}
  /\ MaxTime \in Nat
  /\ NULL \notin Objs \cup Keys /\ Unread \notin Objs /\ Unread # NULL

Dbs == 0 .. DbNum - 1
Times == 0 .. MaxTime

\* What getExpire returns for a key without expiry time.
NoExpire == -1

VARIABLES
  m,        \* the memory: dict and expires of every database, refs (refcount,
            \* 0 when not allocated) and enc (encoding) of every object
  held,     \* the objects that the client owns a reference to
  cur,      \* c->db
  clock,    \* mstime()
  server,   \* loading, slave (masterhost # NULL), lua (lua_caller # NULL) and
            \* lua_time_start
  looping,  \* dbRandomKey is running
  ret,      \* what the last lookup returned
  aborted,  \* an assertion has failed
  first     \* history: what a running script has read of each key

vars == <<m, held, cur, clock, server, looping, ret, aborted, first>>

----------------------------------------------------------------------------
\* Operators on the memory, for the selected database.

Value(mm, k) == mm.dict[cur][k]

\* getExpire
When(mm, k) == mm.expires[cur][k]

Exists(mm, k) == Value(mm, k) # NULL

\* decrRefCount, by the value destructor of the key space as well
Decr(refs, o) == IF o = NULL THEN refs ELSE [refs EXCEPT ![o] = @ - 1]

SetWhen(mm, k, t) == [mm EXCEPT !.expires[cur][k] = t]

SetVal(mm, k, o) == [mm EXCEPT !.dict[cur][k] = o, !.refs = Decr(@, Value(mm, k))]

DeleteKeyOnly(mm, k) == SetVal(mm, k, NULL)

\* dbDelete
Delete(mm, k) == SetVal(SetWhen(mm, k, NoExpire), k, NULL)

ClockNow == clock

\* The time that expireIfNeeded goes by: it stands still during a script.
Now == IF server.lua THEN server.lua_time_start ELSE clock

ExpiredLate(mm, k) == When(mm, k) >= 0 /\ ~server.loading /\ Now > When(mm, k) + 1

\* What expireIfNeeded finds out.
Expired(mm, k) == When(mm, k) >= 0 /\ ~server.loading /\ Now > When(mm, k)

ExpireAlways(mm, k) == IF Expired(mm, k) THEN Delete(mm, k) ELSE mm

ExpireNever(mm, k) == mm

\* expireIfNeeded on the memory: a slave only reports.
Expire(mm, k) == IF Expired(mm, k) /\ ~server.slave THEN Delete(mm, k) ELSE mm

\* The assertion of getExpire: an expiry time belongs to a key.
ExpireAsserts(mm, k) == When(mm, k) # NoExpire => Exists(mm, k)

----------------------------------------------------------------------------
\* The public calls.

Init ==
  /\ m = [dict |-> [i \in Dbs |-> [k \in Keys |-> NULL]],
          expires |-> [i \in Dbs |-> [k \in Keys |-> NoExpire]],
          refs |-> [o \in Objs |-> 0],
          enc |-> [o \in Objs |-> "raw"]]
  /\ held = {}
  /\ cur = 0
  /\ clock = 0
  /\ server = [loading |-> FALSE, slave |-> FALSE, lua |-> FALSE, lua_time_start |-> 0]
  /\ looping = FALSE
  /\ ret = NULL
  /\ aborted = FALSE
  /\ first = [k \in Keys |-> Unread]

Ready == ~looping /\ ~aborted

Wrote(K) == first' = [k \in Keys |-> IF k \in K THEN Unread ELSE first[k]]

\* lookupKeyRead, lookupKeyWrite
LookupKey(k) ==
  LET m1 == Expire(m, k)
  IN /\ Ready
     /\ m' = m1
     /\ ret' = Value(m1, k)
     /\ aborted' = ~ExpireAsserts(m, k)
     /\ first' = IF server.lua /\ first[k] = Unread THEN [first EXCEPT ![k] = ret'] ELSE first
     /\ UNCHANGED <<held, cur, clock, server, looping>>

\* dbAdd, by a caller that passes its reference on
DbAdd(k, o) ==
  /\ Ready /\ o \in held /\ ~Exists(m, k)
  /\ m' = SetVal(m, k, o)
  /\ held' = held \ {o}
  /\ Wrote({k})
  /\ UNCHANGED <<cur, clock, server, looping, ret, aborted>>

\* dbOverwrite, likewise
DbOverwrite(k, o) ==
  /\ Ready /\ o \in held /\ Exists(m, k)
  /\ m' = SetVal(m, k, o)
  /\ held' = held \ {o}
  /\ Wrote({k})
  /\ UNCHANGED <<cur, clock, server, looping, ret, aborted>>

SetKeyUncounted(k, o) ==
  LET m1 == Expire(m, k)
      m2 == SetVal(m1, k, o)
  IN /\ Ready /\ o \in held
     /\ m' = SetWhen(m2, k, NoExpire)
     /\ aborted' = ~ExpireAsserts(m, k)
     /\ Wrote({k})
     /\ UNCHANGED <<held, cur, clock, server, looping, ret>>

\* setKey: lookupKeyWrite, dbAdd or dbOverwrite, incrRefCount, removeExpire
SetKey(k, o) ==
  LET m1 == Expire(m, k)
      m2 == SetVal(m1, k, o)
      m3 == [m2 EXCEPT !.refs[o] = @ + 1]
  IN /\ Ready /\ o \in held
     /\ m' = SetWhen(m3, k, NoExpire)
     /\ aborted' = (~ExpireAsserts(m, k) \/ ~Exists(m3, k))
     /\ Wrote({k})
     /\ UNCHANGED <<held, cur, clock, server, looping, ret>>

\* setExpire: the caller has found the key.
SetExpire(k, t) ==
  /\ Ready /\ Exists(m, k)
  /\ m' = SetWhen(m, k, t)
  /\ Wrote({k})
  /\ UNCHANGED <<held, cur, clock, server, looping, ret, aborted>>

\* removeExpire: likewise
RemoveExpire(k) ==
  /\ Ready /\ Exists(m, k)
  /\ m' = SetWhen(m, k, NoExpire)
  /\ Wrote({k})
  /\ UNCHANGED <<held, cur, clock, server, looping, ret, aborted>>

\* dbDelete
DbDelete(k) ==
  /\ Ready
  /\ m' = Delete(m, k)
  /\ Wrote({k})
  /\ UNCHANGED <<held, cur, clock, server, looping, ret, aborted>>

SharedByEncoding(o) == m.enc[o] # "raw"

Shared(o) == m.refs[o] # 1 \/ m.enc[o] # "raw"

\* dbUnshareStringValue, for a key the caller has just looked up: a raw copy
\* replaces an object that others may refer to.
DbUnshareStringValue(k) ==
  /\ Ready /\ Exists(m, k)
  /\ LET o == Value(m, k)
     IN \/ ~Shared(o) /\ ret' = o /\ UNCHANGED <<m, first>>
        \/ /\ Shared(o)
           /\ \E n \in Objs :
                /\ m.refs[n] = 0
                /\ m' = [SetVal(m, k, n) EXCEPT !.refs[n] = 1, !.enc[n] = "raw"]
                /\ ret' = n
           /\ Wrote({k})
  /\ UNCHANGED <<held, cur, clock, server, looping, aborted>>

\* emptyDb: every database loses its keys and its expiry times.
EmptyDb ==
  LET entries(o) == Cardinality({p \in Dbs \X Keys : m.dict[p[1]][p[2]] = o})
  IN /\ Ready
     /\ m' = [m EXCEPT !.dict = [i \in Dbs |-> [k \in Keys |-> NULL]],
                       !.expires = [i \in Dbs |-> [k \in Keys |-> NoExpire]],
                       !.refs = [o \in Objs |-> @[o] - entries(o)]]
     /\ Wrote(Keys)
     /\ UNCHANGED <<held, cur, clock, server, looping, ret, aborted>>

\* selectDb
SelectDb(id) ==
  /\ Ready
  /\ cur' = IF id \in Dbs THEN id ELSE cur
  /\ Wrote(Keys)
  /\ UNCHANGED <<m, held, clock, server, looping, ret, aborted>>

\* dbRandomKey is called; its loop then runs round by round.
DbRandomKey ==
  /\ Ready
  /\ looping' = TRUE
  /\ UNCHANGED <<m, held, cur, clock, server, ret, aborted, first>>

\* One round: no key, a random key that is returned, or an expired one.
RandomRound ==
  LET present == {k \in Keys : Exists(m, k)}
  IN /\ looping /\ ~aborted
     /\ \/ present = {} /\ looping' = FALSE /\ ret' = NULL /\ UNCHANGED <<m, aborted>>
        \/ \E k \in present :
             /\ m' = Expire(m, k)
             /\ aborted' = ~ExpireAsserts(m, k)
             /\ looping' = Expired(m, k)
             /\ ret' = IF Expired(m, k) THEN ret ELSE k
     /\ UNCHANGED <<held, cur, clock, server, first>>

----------------------------------------------------------------------------
\* The program around: objects, the clock, scripts, loading and replication.

CreateObject(o, e) ==
  /\ Ready /\ m.refs[o] = 0
  /\ m' = [m EXCEPT !.refs[o] = 1, !.enc[o] = e]
  /\ held' = held \cup {o}
  /\ UNCHANGED <<cur, clock, server, looping, ret, aborted, first>>

\* decrRefCount
ReleaseObject(o) ==
  /\ Ready /\ o \in held
  /\ m' = [m EXCEPT !.refs = Decr(@, o)]
  /\ held' = held \ {o}
  /\ UNCHANGED <<cur, clock, server, looping, ret, aborted, first>>

\* Time passes, also while a call runs.
Tick ==
  /\ clock < MaxTime
  /\ clock' = clock + 1
  /\ UNCHANGED <<m, held, cur, server, looping, ret, aborted, first>>

\* A script starts or ends.
Script ==
  /\ Ready
  /\ server' = IF server.lua THEN [server EXCEPT !.lua = FALSE, !.lua_time_start = 0]
               ELSE [server EXCEPT !.lua = TRUE, !.lua_time_start = clock]
  /\ first' = [k \in Keys |-> Unread]
  /\ UNCHANGED <<m, held, cur, clock, looping, ret, aborted>>

\* Loading starts or ends, or the server becomes or ceases to be a slave.
Reconfigure ==
  /\ Ready /\ ~server.lua
  /\ \/ server' = [server EXCEPT !.loading = ~@]
     \/ server' = [server EXCEPT !.slave = ~@]
  /\ UNCHANGED <<m, held, cur, clock, looping, ret, aborted, first>>

----------------------------------------------------------------------------

Next ==
  \/ \E k \in Keys :
       \/ LookupKey(k)
       \/ \E o \in Objs : DbAdd(k, o) \/ DbOverwrite(k, o) \/ SetKey(k, o)
       \/ \E t \in Times : SetExpire(k, t)
       \/ RemoveExpire(k)
       \/ DbDelete(k)
       \/ DbUnshareStringValue(k)
  \/ EmptyDb
  \/ \E id \in -1 .. DbNum : SelectDb(id)
  \/ DbRandomKey
  \/ RandomRound
  \/ \E o \in Objs : (\E e \in {"raw", "int"} : CreateObject(o, e)) \/ ReleaseObject(o)
  \/ Tick
  \/ Script
  \/ Reconfigure

Spec == Init /\ [][Next]_vars

\* A call that has started runs on.
Fairness == WF_vars(RandomRound)

FairSpec == Spec /\ Fairness

----------------------------------------------------------------------------
\* Properties.

TypeOK ==
  /\ m \in [dict : [Dbs -> [Keys -> Objs \cup {NULL}]],
            expires : [Dbs -> [Keys -> Times \cup {NoExpire}]],
            refs : [Objs -> Nat],
            enc : [Objs -> {"raw", "int"}]]
  /\ held \subseteq Objs
  /\ cur \in Dbs
  /\ clock \in Times
  /\ server \in [loading : BOOLEAN, slave : BOOLEAN, lua : BOOLEAN, lua_time_start : Times]
  /\ looping \in BOOLEAN
  /\ ret \in Objs \cup Keys \cup {NULL}
  /\ aborted \in BOOLEAN
  /\ first \in [Keys -> Objs \cup {NULL, Unread}]

\* An expiry time never outlives its key: the entry of expires shares the
\* key's string with the entry of dict (setExpire), and getExpire and
\* removeExpire assert that the key is there.
ExpiresHaveKeys ==
  \A i \in Dbs : \A k \in Keys : m.expires[i][k] # NoExpire => m.dict[i][k] # NULL

\* No assertion of xmdb.c fails for clients that respect the comments of xmdb.h.
NoAssertionFails == ~aborted

\* The reference count of an object is the number of its owners: the client
\* that created it and the keys it is the value of.  No key has a freed value.
RefsCounted ==
  \A o \in Objs :
    m.refs[o] = Cardinality({p \in Dbs \X Keys : m.dict[p[1]][p[2]] = o})
                  + (IF o \in held THEN 1 ELSE 0)

\* After dbUnshareStringValue the value can be changed in place: it is raw and
\* the key is its only owner, and no other key has got another value.
UnsharedIsPrivate ==
  [][\A k \in Keys : DbUnshareStringValue(k) =>
       /\ ret' = m'.dict[cur][k]
       /\ m'.refs[ret'] = 1 /\ m'.enc[ret'] = "raw" /\ ret' \notin held
       /\ \A i \in Dbs, x \in Keys : <<i, x>> # <<cur, k>> => m'.dict[i][x] = m.dict[i][x]]_vars

\* A key leaves the key space when it is deleted, or on a master that is not
\* loading when its time has come: never on a slave, never before its time.
KeysLeaveInTime ==
  [][\A i \in Dbs, k \in Keys : m.dict[i][k] # NULL /\ m'.dict[i][k] = NULL =>
       \/ DbDelete(k)
       \/ EmptyDb
       \/ /\ ~server.slave /\ ~server.loading
          /\ m.expires[i][k] \in Times /\ m.expires[i][k] < clock]_vars

\* Time stands still in a script: two reads of a key that nothing wrote to in
\* between agree, whatever its expiry time and however long the script runs.
ScriptReadsAgree ==
  [][\A k \in Keys : LookupKey(k) /\ server.lua /\ first[k] # Unread => ret' = first[k]]_vars

\* If this step ends a call of dbRandomKey with a key, the key is there and has
\* not expired by the clock of the call (that of the script, in a script).
AnswerUnexpired ==
  RandomRound /\ ~looping' /\ ret' # NULL =>
    /\ m'.dict[cur][ret'] # NULL
    /\ m'.expires[cur][ret'] = NoExpire \/ Now <= m'.expires[cur][ret']

\* Unless the server is loading, dbRandomKey returns no key that has expired or
\* that is not there.  The comment of dbRandomKey in xmdb.h makes no exception,
\* but while the server is loading expireIfNeeded takes every key for unexpired.
RandomKeyUnexpired == [][~server.loading => AnswerUnexpired]_vars

\* On a master that stays one dbRandomKey returns: expired keys are deleted, and
\* each round either finds one of the others or has one key less to draw from.
RandomKeyReturns == []~server.slave => (looping ~> ~looping)

\* dbRandomKey returns a key or NULL, on any server (its comment in xmdb.h).
RandomKeyAnswers == looping ~> ~looping
=============================================================================
