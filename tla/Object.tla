------------------------------- MODULE Object -------------------------------
(***************************************************************************)
(* An object of xmobject.h that holds a list, a set, a hash or a sorted    *)
(* set, and the iterator that a client may have open on it.                *)
(*                                                                         *)
(* The value behind ptr depends on the encoding: a ziplist, an intset, and *)
(* for the others what Dict, AdList and SkipList show them to be: a dict   *)
(* is a map or a set, a linked list a sequence, a skip list with its dict  *)
(* gives every member its score.                                           *)
(***************************************************************************)
EXTENDS ZipList, IntSet

CONSTANT
  Types   \* the types of the objects: "set", "list", "hash", "zset"

VARIABLES
  type,      \* o->type
  encoding,  \* o->encoding
  ptr,       \* what o->ptr points to
  it,        \* the open iterator, NULL if there is none
  due,       \* what the iteration has yet to return
  ret        \* the last call: its name, its arguments and what it returned

vars == <<type, encoding, ptr, it, due, ret>>

REDIS_HEAD == 0
REDIS_TAIL == 1

\* The object gets an encoding and a value.
Become(enc, value) == encoding' = enc /\ ptr' = value /\ UNCHANGED type

SameObject == UNCHANGED <<type, encoding, ptr>>

\* zzlDelete, and the two deletions of hashTypeDelete: an entry and the one
\* that has then come to its place.
DeletedPair(zl, p) == ZiplistDelete(ZiplistDelete(zl, p), p)

\* The client changes the object only while it has no iterator open, but for
\* the calls that xmt_list.h has for that.
NoIterator == it = NULL /\ UNCHANGED <<it, due>>

\* What an iteration over a set has to return after it has returned x, and
\* likewise over a sequence; NULL when it should not have returned x.
DueInSet(x) == IF x \in due THEN due \ {x} ELSE NULL
DueInSeq(x) == IF due # <<>> /\ due[1] = x THEN SubSeq(due, 2, Len(due)) ELSE NULL

\* An iterator keeps the encoding that the object has when it is made.
Iterate(iterator, elements) ==
  /\ it = NULL
  /\ it' = iterator
  /\ due' = elements
  /\ SameObject /\ UNCHANGED ret

ReleaseIterator == it # NULL /\ it' = NULL /\ due' = NULL /\ SameObject /\ UNCHANGED ret
=============================================================================
