------------------------------ MODULE DictMap -------------------------------
(***************************************************************************)
(* What the public calls of xmdict.h promise about keys and values: a dict *)
(* is a partial map, and rehashing, resizing and iterating never show.     *)
(***************************************************************************)
CONSTANTS Keys, Vals, NULL

VARIABLES
  map,  \* the value of each key, NULL for a key that is absent
  ret   \* the last call: its name, its arguments and what it returned

mapVars == <<map, ret>>

Init == map = [k \in Keys |-> NULL] /\ ret = NULL

Present == {k \in Keys : map[k] # NULL}

\* dictAdd: 0 (DICT_OK) for a new key, 1 (DICT_ERR) and no change otherwise.
Add(k, v) ==
  IF k \in Present
  THEN ret' = <<"add", k, v, 1>> /\ UNCHANGED map
  ELSE ret' = <<"add", k, v, 0>> /\ map' = [map EXCEPT ![k] = v]

\* dictReplace: 1 for a new key, 0 for a replaced value.
Replace(k, v) ==
  /\ ret' = <<"replace", k, v, IF k \in Present THEN 0 ELSE 1>>
  /\ map' = [map EXCEPT ![k] = v]

\* dictReplaceRaw with the value its caller stores.
Upsert(k, v) == ret' = <<"upsert", k, v>> /\ map' = [map EXCEPT ![k] = v]

Delete(k) ==
  /\ ret' = <<"delete", k, IF k \in Present THEN 0 ELSE 1>>
  /\ map' = [map EXCEPT ![k] = NULL]

Fetch(k) == ret' = <<"fetch", k, map[k]>> /\ UNCHANGED map

\* dictGetRandomKey: some key, NULL only for an empty dict.
RandomKey ==
  /\ \E k \in IF Present = {} THEN {NULL} ELSE Present : ret' = <<"random", k>>
  /\ UNCHANGED map

Clear == map' = [k \in Keys |-> NULL] /\ UNCHANGED ret

\* dictExpand, dictResize and dictRehash report a status and nothing else.
Report == (\E s \in {0, 1} : ret' = <<"report", s>>) /\ UNCHANGED map

Next ==
  \/ \E k \in Keys : Delete(k) \/ Fetch(k)
  \/ \E k \in Keys, v \in Vals : Add(k, v) \/ Replace(k, v) \/ Upsert(k, v)
  \/ RandomKey
  \/ Clear
  \/ Report

Spec == Init /\ [][Next]_mapVars
=============================================================================
