-------------------------- MODULE MCEntryConversion --------------------------
(* EntryConversion with integers of which an entry keeps two bits.         *)
EXTENDS EntryConversion
Of(t, ns, p) == [type |-> t, nums |-> ns, plain |-> p]
TheCallables == {Of("string", <<>>, TRUE), Of("object", <<1>>, FALSE), Of("closure", <<5>>, FALSE)}
TheValues == {Of("long", <<-2>>, TRUE), Of("long", <<5>>, TRUE), Of("array", <<5>>, TRUE),
              Of("array", <<>>, FALSE), Of("object", <<3>>, TRUE), Of("closure", <<5>>, FALSE)}
Usual == {}
=============================================================================
