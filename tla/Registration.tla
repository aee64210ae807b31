---------------------------- MODULE Registration ----------------------------
(***************************************************************************)
(* How the names that stubs use find implementations: the decorators of    *)
(* interfaces, the registration of implementations with a Worker, and the  *)
(* two spellings between which the library translates.                     *)
(*                                                                         *)
(* The name of a method is the sequence of what stands between its         *)
(* underscores; each of these is a sequence of humps, of which all but the *)
(* first begin with a capital; a hump is a sequence of words, which do not *)
(* show.  get_greeting is << <<get>>, <<greeting>> >> and getGreeting is   *)
(* << <<get, greeting>> >>, where get and greeting are humps of one word.  *)
(*                                                                         *)
(* No two methods of a class differ in spelling alone, so that the order   *)
(* in which getmembers gives them does not matter.                         *)
(***************************************************************************)
EXTENDS Sequences, SequencesExt

camel_to_snake(name) ==
  LET humps == FlattenSeq(name)
  IN  [i \in DOMAIN humps |-> <<humps[i]>>]

\* title() makes one hump of several.
snake_to_camel(name) ==
  <<Head(name) \o [i \in 1..(Len(name) - 1) |-> FlattenSeq(name[i + 1])]>>

-----------------------------------------------------------------------------
(* Keys: "Class::method", or a name without a class that the user has given *)

NoClass == "no class"
Key(cls, name) == [cls |-> cls, name |-> name]

BothSpellings(cls, name) == {Key(cls, camel_to_snake(name)), Key(cls, snake_to_camel(name))}

\* The name under which a decorator makes a method known; given is the sequence of the
\* names in its arguments, of which there is at most one.
DeclaredName(cls, name, given) == IF given = <<>> THEN Key(cls, name) ELSE given[1]

-----------------------------------------------------------------------------
(* Activities *)

ActivityKeys(cls_name, methods) == UNION {BothSpellings(cls_name, name) : name \in DOMAIN methods}

\* Mutant: what is registered looks its method up by a loop variable, when it runs.
register_activities_implementation_late(activities, cls_name, methods) ==
  LET last == Last(SetToSeq(DOMAIN methods))
  IN  [key \in ActivityKeys(cls_name, methods) |-> methods[last]] @@ activities

\* Both spellings of the name of each method are registered, but not the name itself.
\* Methods are a function from names to what runs.
register_activities_implementation(activities, cls_name, methods) ==
  LET keys == ActivityKeys(cls_name, methods)
  IN  [key \in keys \cup DOMAIN activities |->
         IF key \in keys
         THEN methods[CHOOSE name \in DOMAIN methods : key \in BothSpellings(cls_name, name)]
         ELSE activities[key]]

-----------------------------------------------------------------------------
(* Workflows *)

\* A class is [cls, methods]: for each method that it defines itself [kind, given], where
\* kind is "workflow", "signal", "query" or "none".  A type is given by its mro, without
\* object.  Each class has one base at most, so that the mro of a base is what follows it
\* in that of the type, and getattr on the base finds what Member finds there.

Declaring(mro, kind, name) ==
  {i \in DOMAIN mro : name \in DOMAIN mro[i].methods /\ mro[i].methods[name].kind = kind}

MethodNames(mro) == UNION {DOMAIN mro[i].methods : i \in DOMAIN mro}

\* The first base that declares a workflow method is the interface.
find_interface_class(mro) ==
  LET declaring == UNION {Declaring(mro, "workflow", name) : name \in MethodNames(mro)}
  IN  IF declaring = {} THEN mro[1] ELSE mro[Max(declaring)]

\* The class whose method of this name is inherited.
Member(mro, name) == mro[Min({i \in DOMAIN mro : name \in DOMAIN mro[i].methods})]

\* What getattr finds.
getattr(mro, name) == [cls |-> Member(mro, name).cls, name |-> name]

\* The decoration nearest to the implementation counts, although the method itself may be
\* overridden without one.
find_metadata_field(mro, kind, name) ==
  LET class == mro[Min(Declaring(mro, kind, name))]
  IN  DeclaredName(class.cls, name, class.methods[name].given)

\* Mutant: the declared name alone.
Keys_declared(cls_name, declared) == {declared}

\* All that is found under a declared name: itself, and both spellings in the interface's
\* class or in the one that is named instead.
Keys(cls_name, declared) ==
  {declared} \cup (IF declared.cls = NoClass THEN {} ELSE BothSpellings(cls_name, declared.name))

Decorated(mro, kind) == {name \in MethodNames(mro) : Declaring(mro, kind, name) # {}}

\* The entries of an implementation's methods of one kind.
Entries(mro, kind, cls_name) ==
  LET names == Decorated(mro, kind)
      keys(name) == Keys(cls_name, find_metadata_field(mro, kind, name))
  IN  [key \in UNION {keys(name) : name \in names} |->
         getattr(mro, CHOOSE name \in names : key \in keys(name))]

\* A table with entries that may replace some of its own.
Updated(table, entries) ==
  [key \in DOMAIN table \cup DOMAIN entries |->
     IF key \in DOMAIN entries THEN entries[key] ELSE table[key]]

\* The tables of signals and queries are attributes of classes: an implementation whose
\* base has been registered before has its base's.
Holder(tables, mro) ==
  LET holding == {i \in DOMAIN mro : mro[i].cls \in DOMAIN tables}
  IN  IF holding = {} THEN mro[1].cls ELSE mro[Min(holding)].cls

Extend(tables, mro, entries) ==
  LET cls == Holder(tables, mro)
      table == IF cls \in DOMAIN tables THEN tables[cls] ELSE <<>>
  IN  Updated(tables, [holder \in {cls} |-> Updated(table, entries)])

NoImplementations == [workflow_methods |-> <<>>, signal_methods |-> <<>>, query_methods |-> <<>>]

\* given is the workflow_cls_name, or a sequence without one.
register_workflow_implementation_type(registry, mro, given) ==
  LET cls_name == IF given = <<>> THEN find_interface_class(mro).cls ELSE given[1]
  IN  [workflow_methods |-> Updated(registry.workflow_methods, Entries(mro, "workflow", cls_name)),
       signal_methods |->
         Extend(registry.signal_methods, mro, Entries(mro, "signal", cls_name)),
       query_methods |->
         Extend(registry.query_methods, mro, Entries(mro, "query", cls_name))]

\* What a signal runs on an instance of a type; SignalNotFound if there is nothing.
SignalMethods(registry, mro) == registry.signal_methods[Holder(registry.signal_methods, mro)]
QueryMethods(registry, mro) == registry.query_methods[Holder(registry.query_methods, mro)]

-----------------------------------------------------------------------------
(* Stubs of workflows *)

\* A method that is overridden without a decoration has none for the stub.
Members(mro, kind) ==
  {name \in MethodNames(mro) : Member(mro, name).methods[name].kind = kind}

\* The names under which a stub of a class starts, signals or queries.
new_workflow_stub(mro, kind) ==
  [name \in Members(mro, kind) |->
     DeclaredName(Member(mro, name).cls, name, Member(mro, name).methods[name].given)]

-----------------------------------------------------------------------------
(* Reference: what the spellings are for *)

Words(name) == FlattenSeq(FlattenSeq(name))

\* Two names are of the same words.
SameMethod(name1, name2) == Words(name1) = Words(name2)

\* A name in one of the two spellings, with one word to a hump.
Snake(words) == [i \in DOMAIN words |-> << <<words[i]>> >>]
Camel(words) == << [i \in DOMAIN words |-> <<words[i]>>] >>

IsSpelled(name) == name \in {Snake(Words(name)), Camel(Words(name))}
=============================================================================
