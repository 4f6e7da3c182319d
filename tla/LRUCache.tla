------------------------------ MODULE LRUCache ------------------------------
(***************************************************************************)
(* The cache of file contents (util-gitfan/lru_cache.hpp): a list of keys, *)
(* the last used one first, and a map from keys to values and to where the *)
(* key is in the list.  A cache is a value here, and get() gives the cache *)
(* it leaves and what it returns.                                          *)
(***************************************************************************)
EXTENDS Naturals, SequencesExt

\* The nodes of the list carry the number of their call of push_front(), the
\* map has for each key the node its iterator points to and the value.
LRUCache(size) == [size |-> size, lru |-> <<>>, values |-> <<>>, pushed |-> 0]

\* A key that is not cached: the last key goes if there are too many.
Miss(cache, key, value) ==
  LET full == Len(cache.lru) > cache.size
      kept == IF full THEN DOMAIN cache.values \ {Last(cache.lru).key}
              ELSE DOMAIN cache.values
  IN  [cache EXCEPT
         !.lru = IF full THEN Front(cache.lru) ELSE cache.lru,
         !.values = [k \in kept \cup {key} |->
                       IF k = key THEN [at |-> cache.lru[1].id, value |-> value]
                       ELSE cache.values[k]]]

\* The list without the node an iterator points to.
Erased(lru, id) == SelectSeq(lru, LAMBDA node : node.id # id)

\* Fault: the iterator is left pointing to the node that was erased.
HitStale(cache, key) ==
  [cache EXCEPT !.lru = Erased(cache.lru, cache.values[key].at)]

\* A key that is cached: its old node is erased, its iterator is the new one.
Hit(cache, key) ==
  [cache EXCEPT
     !.lru = Erased(cache.lru, cache.values[key].at),
     !.values[key].at = cache.lru[1].id]

\* Each call begins with a new node at the front.
PushFront(cache, key) ==
  [cache EXCEPT !.lru = <<[key |-> key, id |-> cache.pushed]>> \o cache.lru,
                !.pushed = @ + 1]

\* factory is what the factory makes of the key.
get(cache, key, factory) ==
  LET pushed == PushFront(cache, key)
  IN  IF cache.size = 0 THEN [cache |-> cache, value |-> factory]
      ELSE IF key \in DOMAIN cache.values
           THEN [cache |-> Hit(pushed, key), value |-> cache.values[key].value]
           ELSE [cache |-> Miss(pushed, key, factory), value |-> factory]

-----------------------------------------------------------------------------
\* The keys used last, each once, the latest first.
LastUsed(keys) ==
  LET latest(i) == \A j \in (i + 1)..Len(keys) : keys[j] # keys[i]
      at == SelectSeq(Reverse([i \in DOMAIN keys |-> i]), latest)
  IN  [i \in DOMAIN at |-> keys[at[i]]]

\* The cache after a sequence of calls of get().
After(size, keys, factory(_)) ==
  FoldLeft(LAMBDA cache, key : get(cache, key, factory(key)).cache,
           LRUCache(size), keys)
=============================================================================
