------------------------------- MODULE MCKeeGate -------------------------------
(* Small instances of KeeGate for TLC. *)
EXTENDS KeeGate

Entry(uuid, title, user, password, root, nested, tags, windows, history) ==
  [uuid |-> uuid, title |-> title, user |-> user, password |-> password, root |-> root,
   nested |-> nested, tags |-> tags, windows |-> windows, history |-> history]
Rev(n, tags) == [rev |-> n, tags |-> tags]

(* Users 1 and 2: user 1, a second entry of that name, one without a       *)
(* password, and user 2 in the third root group.                           *)
User1 == Entry(1, 1, 1, 1, 1, FALSE, <<1>>, <<>>, <<>>)
Twin1 == Entry(2, 0, 1, 2, 1, FALSE, <<1, 2>>, <<>>, <<>>)
Mute1 == Entry(2, 0, 1, 0, 1, FALSE, <<1>>, <<>>, <<>>)
User2 == Entry(3, 1, 2, 2, 3, FALSE, <<2, 1>>, <<>>, <<>>)

(* Secrets: at the root, in a group, in a subgroup; one was edited.        *)
AtRoot == Entry(4, 2, 7, 7, 0, FALSE, <<1>>, <<>>, <<>>)
InGroup == Entry(5, 1, 7, 7, 2, FALSE, <<2, 1>>, <<2, 1>>, <<Rev(2, <<2, 1>>), Rev(1, <<1>>)>>)
InGroupAgain ==
  Entry(5, 3, 7, 8, 2, FALSE, <<2>>, <<1>>,
        <<Rev(3, <<2, 1>>), Rev(2, <<2, 1>>), Rev(1, <<1>>)>>)
Nested == Entry(6, 1, 7, 7, 2, TRUE, <<1>>, <<>>, <<>>)

MCChanged == {Twin1, Mute1, User2, InGroupAgain, Nested}
MCGroupings ==
  {<<UsersGroupName, "other", "other">>, <<UsersGroupName, "other", UsersGroupName>>,
   <<"other", "other", UsersGroupName>>}
MCFirstFiles ==
  {[version |-> "KDB3", header |-> FALSE, groups |-> <<UsersGroupName, "other", "other">>,
    entries |-> <<User1, AtRoot, InGroup>>],
   [version |-> "KDB4", header |-> TRUE, groups |-> <<UsersGroupName, "other", UsersGroupName>>,
    entries |-> <<User1, User2, InGroup, Nested>>]}

Leaf(op, arg) == [op |-> op, arg |-> arg, kids |-> {}]
Tree(op, kids) == [op |-> op, arg |-> {}, kids |-> kids]
Tag1 == Leaf("tag", {1})
Titles == Leaf("title", {1, 2})
Uuid5 == Leaf("uuid", {5})
Broken == Leaf("invalid", {})
Both == Tree("and", {Tag1, Titles})
Nothing == Tree("and", {})
Deep == Tree("or", {Both, Uuid5})
DeepBroken == Tree("or", {Tag1, Broken})
MCFilters == {Tag1, Titles, Uuid5, Broken, Both, Nothing, Deep, DeepBroken}

AskFor(kind, filters, limit) == [kind |-> kind, filters |-> filters, limit |-> limit]
MCAsks ==
  {AskFor("uuid", {Uuid5}, NoLimit), AskFor("uuid", {Broken}, NoLimit),
   AskFor("query", {Tag1}, 1), AskFor("query", {Tag1, Titles}, NoLimit),
   AskFor("query", {}, NoLimit),
   AskFor("post", {Deep}, 5), AskFor("post", {DeepBroken}, NoLimit)}

Written(host, user, password) == [host |-> host, user |-> user, password |-> password]
MCStrings ==
  {Written(Home, 1, 1), Written(Home, 2, 2), Written(Home, 1, 2), Written(NoHost, 0, 0),
   Written("elsewhere", 3, 3), Written("elsewhere", 0, 0)}
================================================================================
