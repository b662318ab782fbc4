------------------------------ MODULE MCVobject ------------------------------
(***************************************************************************)
(* Calendars with up to three components, and address books with up to two *)
(* cards.                                                                  *)
(***************************************************************************)
EXTENDS Vobject

UidLine(u) == IF u = <<>> THEN <<>> ELSE <<Line("UID", u)>>
Event(u, c) == Component("VEVENT", UidLine(u) \o <<Line("SUMMARY", <<c>>)>>, <<>>)
Card(u, c) == Component("VCARD", UidLine(u) \o <<Line("FN", <<c>>)>>, <<>>)
Zone(n) == Component("VTIMEZONE", <<Line("TZID", <<n>>)>>, <<>>)
Calendar(props, sub) == Component("VCALENDAR", props, sub)

(* An event in two lines of UID, one with an alarm that has a UID, too.    *)
Folded ==
  Component("VEVENT",
    <<Line("UID", <<"u">>), Line(" ", <<"1">>), Line("SUMMARY", <<"c2">>)>>, <<>>)
WithAlarm ==
  Component("VEVENT", <<Line("DTSTAMP", <<"t">>), Line("UID", <<"v">>), Line("SUMMARY", <<"c1">>)>>,
    <<Component("VALARM", UidLine(<<"w">>), <<>>)>>)

Parts == {Event(<<"u", "1">>, "c1"), Folded, WithAlarm, Event(<<>>, "c1"), Zone("z1")}
Props == {<<>>, <<Line("METHOD", <<"PUBLISH">>)>>, <<Line("CALSCALE", <<"G">>)>>,
          <<Line("UID", <<"x">>)>>}
Cards == {Card(<<"u", "1">>, "c1"), Card(<<"u", "1">>, "c2"), Card(<<>>, "c1"),
          Card(<<>>, "c2")}

OneCalendar == {<<Calendar(p, s)>> : p \in Props, s \in BoundedSeq(Parts, 2)}
Larger == {<<Calendar(<<>>, s)>> : s \in TupleOf(Parts, 3)}
TwoCalendars ==
  {<<Calendar(p, <<c>>), Calendar(<<>>, <<d>>)>> : p \in Props, c, d \in Parts}
BareCards == BoundedSeq(Cards, 2)
AddressBooks == {<<Component("VADDRESSBOOK", <<>>, s)>> : s \in BoundedSeq(Cards, 2)}
Unknown == {<<Calendar(<<>>, <<Component("VFREEBUSY", <<>>, <<>>)>>)>>}

(* Two lines of a file got into the wrong order.                           *)
Swapped(ls) ==
  {[ls EXCEPT ![k] = ls[k + 1], ![k + 1] = ls[k]] : k \in 1 .. Len(ls) - 1}
Wrong == UNION {Swapped(Lines(Calendar(<<>>, <<x>>))) : x \in Parts}

MCTexts ==
  Wrong \cup
  {LinesOf(cs) \o <<Line("", <<>>)>> :
     cs \in OneCalendar \cup Larger \cup TwoCalendars \cup BareCards \cup AddressBooks
              \cup Unknown}

MCItems ==
  {Calendar(<<>>, <<Event(<<"u", "2">>, "c2"), Zone("z2")>>),
   Calendar(<<Line("CALSCALE", <<"G">>)>>, <<Event(<<"u", "1">>, "c3")>>),
   Calendar(<<Line("UID", <<"y">>)>>, <<Event(<<"u", "3">>, "c1")>>),
   Calendar(<<>>, <<Event(<<>>, "c2")>>),
   Component("VJOURNAL", UidLine(<<"u", "4">>), <<>>),
   Card(<<"u", "2">>, "c2")}
=============================================================================
