--------------------------- MODULE OrderedMapAdapter ---------------------------
(***************************************************************************)
(* The adapters an OrderedMap campaign is made against: the servers of     *)
(* implementations/ordered-map/rust and .../typescript, which keep a real  *)
(* map, and the semantic modes of                                          *)
(* fixtures/adapters/ordered-map-v1/fake_ordered_map_adapter.py.           *)
(*                                                                         *)
(* Rust and the fixture keep a map as the list of its entries, TypeScript  *)
(* as an order of classes and the value of each.  A handle is the place of *)
(* a map among those handed out, 0 one that never was.                     *)
(***************************************************************************)
EXTENDS OrderedMapPlan, SequencesExt, Functions, TLC

Servers == {"rust", "typescript"}

NewAdapter == [maps |-> <<>>, seq |-> 0]

ClassOf(key) ==
  CASE key \in {"A", "a"} -> "a"
    [] key \in {"B", "b"} -> "b"
    [] key \in {"C", "c"} -> "c"

-----------------------------------------------------------------------------
(* The list of entries. *)

Places(list, token) == {i \in DOMAIN list : list[i].class = token}

PutIn(list, token, value) ==
  IF Places(list, token) = {} THEN Append(list, Entry(token, value))
  ELSE [i \in DOMAIN list |-> IF list[i].class = token THEN Entry(token, value) ELSE list[i]]

LookupIn(list, token) ==
  IF Places(list, token) = {} THEN None
  ELSE Some(list[CHOOSE i \in Places(list, token) : TRUE].value)

(* One mode moves an entry it changes to the end. *)
MovedToEnd(list, token, value) ==
  Append(SelectSeq(list, LAMBDA e : e.class # token), Entry(token, value))

-----------------------------------------------------------------------------
(* The order and the values of ordered_map.ts. *)

EmptyOf(lang) == IF lang = "typescript" THEN [order |-> <<>>, values |-> <<>>] ELSE <<>>

PutTo_AlwaysAppends(lang, map, token, value) ==
  IF lang = "typescript"
  THEN [order  |-> Append(map.order, token), values |-> (token :> value) @@ map.values]
  ELSE PutIn(map, token, value)

PutTo(lang, map, token, value) ==
  IF lang = "typescript"
  THEN [order  |-> IF token \in DOMAIN map.values THEN map.order ELSE Append(map.order, token),
        values |-> (token :> value) @@ map.values]
  ELSE PutIn(map, token, value)

LookupOf(lang, map, token) ==
  IF lang = "typescript"
  THEN IF token \in DOMAIN map.values THEN Some(map.values[token]) ELSE None
  ELSE LookupIn(map, token)

EntriesOf(lang, map) ==
  IF lang = "typescript"
  THEN [i \in DOMAIN map.order |-> Entry(map.order[i], map.values[map.order[i]])]
  ELSE map

-----------------------------------------------------------------------------
(* An answer: its status, what it says, the handle of a map it gives, the  *)
(* events it reports, and the adapter after it.                            *)
Says(result, handle, adapter) ==
  [status |-> "ok", result |-> result, handle |-> handle, events |-> <<>>, adapter |-> adapter]

Gives(adapter, map) == Says(MapGiven, Len(adapter.maps) + 1, [adapter EXCEPT !.maps = Append(@, map)])

(* The operation, of a server that has counted the request. *)
Execute(lang, counted, request) ==
  LET held == counted.maps[request.handle] IN
  CASE request.op = "empty"   -> Gives(counted, EmptyOf(lang))
    [] request.op = "put"     -> Gives(counted, PutTo(lang, held, ClassOf(request.key), request.value))
    [] request.op = "lookup"  -> Says(LookupOf(lang, held, ClassOf(request.key)), 0, counted)
    [] request.op = "entries" -> Says(Listed(EntriesOf(lang, held)), 0, counted)

Exit(adapter) == [Says(None, 0, adapter) EXCEPT !.status = "exit"]

Counted(adapter) == [adapter EXCEPT !.seq = @ + 1]

(* The operands: a live handle, a key and a value of the profile. *)
Decoded(request) ==
  /\ request.op = "put" => request.value \in Values
  /\ request.op \in {"put", "lookup"} => request.key \in Keys

Retained(adapter, request) ==
  request.op # "empty" => request.handle \in DOMAIN adapter.maps

(* main.rs: any fault ends the process, and only an answer is counted. *)
ServeRust(adapter, request) ==
  IF request.seq = adapter.seq /\ Decoded(request) /\ Retained(adapter, request)
  THEN Execute("rust", Counted(adapter), request)
  ELSE Exit(adapter)

(* adapter.ts: a request is counted before its operands are looked at.     *)
ServeTypescript(adapter, request) ==
  IF request.seq # adapter.seq THEN Exit(adapter)
  ELSE IF Decoded(request) /\ Retained(adapter, request)
  THEN Execute("typescript", Counted(adapter), request)
  ELSE Exit(Counted(adapter))

-----------------------------------------------------------------------------
(* The fixture. *)

(* store: fresh, unless equal maps share a handle. *)
Store(mode, adapter, map) ==
  LET same == {h \in DOMAIN adapter.maps : adapter.maps[h] = map} IN
  IF mode = "interned" /\ same # {}
  THEN Says(MapGiven, CHOOSE h \in same : \A g \in same : h <= g, adapter)
  ELSE Gives(adapter, map)

(* respond, for "put". *)
FixturePut(mode, adapter, request) ==
  LET source   == adapter.maps[request.handle]
      token    == ClassOf(request.key)
      new      == Places(source, token) = {}
      retained == IF mode = "reorder-existing" /\ ~new
                  THEN MovedToEnd(source, token, request.value)
                  ELSE PutIn(source, token, request.value)
      spoils   == \/ mode = "destructive-new" /\ new /\ Len(source) = 1
                  \/ mode = "destructive-existing" /\ ~new /\ Len(source) = 2
      left     == IF spoils THEN [adapter EXCEPT !.maps[request.handle] = retained] ELSE adapter
  IN  Store(mode, left, retained)

(* respond, for "lookup". *)
FixtureLookup(mode, adapter, request) ==
  LET source == adapter.maps[request.handle]
      found  == LookupIn(source, ClassOf(request.key))
      off    == /\ found # None
                /\ \/ mode = "wrong-same" /\ Len(source) = 1
                   \/ mode = "wrong-other" /\ Len(source) = 2
  IN  Says(IF mode = "wrong-empty" /\ source = <<>> THEN Some(0)
           ELSE IF off THEN Some(found.value + 1)
           ELSE found, 0, adapter)

(* respond, for "entries". *)
FixtureEntries(mode, adapter, request) ==
  LET source == adapter.maps[request.handle] IN
  Says(Listed(IF mode = "wrong-append" /\ Len(source) = 3 THEN Reverse(source) ELSE source),
       0, adapter)

(* events. *)
EventsOf(mode) ==
  CASE mode = "optional-event"         -> << <<"debug", "emit">> >>
    [] mode = "forbidden-event"        -> << <<"io", "read">> >>
    [] mode = "adapter-error-forbidden" -> << <<"io", "read">> >>
    [] mode = "long-forbidden-event"   -> << <<"io", "read", "deep">> >>
    [] mode = "unspecified-event"      -> << <<"network", "send">> >>
    [] mode = "ordered-events"         -> << <<"debug", "emit">>, <<"network", "send">> >>
    [] mode = "nonmatching-io-boundary" -> << <<"io">>, <<"io", "">> >>
    [] OTHER                           -> <<>>

Refusing == {"status-error", "adapter-error-forbidden"}

Respond(mode, adapter, request) ==
  LET answer ==
        CASE mode \in Refusing -> [Says(None, 0, adapter) EXCEPT !.status = "error"]
          [] mode \notin Refusing /\ request.op = "empty"   -> Store(mode, adapter, <<>>)
          [] mode \notin Refusing /\ request.op = "put"     -> FixturePut(mode, adapter, request)
          [] mode \notin Refusing /\ request.op = "lookup"  -> FixtureLookup(mode, adapter, request)
          [] mode \notin Refusing /\ request.op = "entries" -> FixtureEntries(mode, adapter, request)
  IN  IF mode = "rust" THEN ServeRust(adapter, request)
      ELSE IF mode = "typescript" THEN ServeTypescript(adapter, request)
      ELSE [answer EXCEPT !.events = EventsOf(mode)]

=============================================================================
