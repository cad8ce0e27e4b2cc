----------------------------- MODULE MCGrouping -----------------------------
(***************************************************************************)
(* Occurrences for TLC, after the traces of tests/traces.py: a violated    *)
(* constraint seen from two checkouts of one anchor, from a checkout of    *)
(* another and in two services, the same stack with another constraint,    *)
(* entries to it one, two and three calls higher, a deep stack with two    *)
(* messages, two short traces and a line of a log.                         *)
(***************************************************************************)
EXTENDS Grouping

Text(shape, value) == [shape |-> shape, value |-> value]

Path(above, anchor, tail) == [above |-> above, anchor |-> anchor, tail |-> tail]

\* Two checkouts that normalise_path brings together, and one that it does not.
Opt == <<"/opt/venv", "site-packages">>
Ci == <<"/home/ci", "site-packages">>
App == <<"", "app">>

Header == <<[is |-> "header"]>>
Frame(fn, checkout, number) ==
  <<[is |-> "frame", path |-> Path(checkout[1], checkout[2], "module"), fn |-> fn,
     number |-> number]>>
\* A call: the header of its frame and the source line under it.
Call(fn, checkout, number) ==
  Frame(fn, checkout, number) \o <<[is |-> "source", text |-> Text(fn, number)]>>
\* A frame without a source line.
Entry(fn) == Frame(fn, Opt, 1)

TemplatePath == Path("<template>", Nothing, "")
GeneratedPaths == {TemplatePath}
Template(number) ==
  <<[is |-> "frame", path |-> TemplatePath, fn |-> "render", number |-> number],
    [is |-> "source", text |-> Text("render", number)]>>
Raise(class, shape, value) ==
  <<[is |-> "raised", class |-> class, text |-> Text(shape, value)]>>
\* "DETAIL:  Key (user_id)=(...) is not present"
Detail(shape, value) == <<[is |-> "other", text |-> Text(shape, value)]>>

Calls(checkout, number) ==
  Call("a", checkout, number) \o Call("b", checkout, number)
    \o Call("c", checkout, number) \o Frame("d", checkout, number)

Occurrence(bug, service, trace, shape, value) ==
  [bug |-> bug, service |-> service, class |-> "Error", trace |-> trace,
   message |-> Text(shape, value)]

\* A trace and its message, without a class from the reporter.
Unnamed(bug, trace) ==
  [bug |-> bug, service |-> "svc", class |-> "", trace |-> trace, message |-> Nothing]

Violation(value, checkout) ==
  Header \o Template(value) \o Calls(checkout, value)
    \o Raise("Error", "user", value) \o Detail("key", value)
Above(entries) == entries \o Calls(Opt, 1) \o Raise("Error", "user", 1) \o Detail("key", 1)
Deep(shape) ==
  Call("deep", Opt, 1) \o Calls(Opt, 1) \o Raise("Error", shape, 1) \o Detail("key", 1)

Reported == {
  Occurrence("user", "svc", Violation(1, Opt), "user", 1),
  Occurrence("user", "svc", Violation(2, Ci), "user", 2),
  Occurrence("user below /app/", "svc", Violation(1, App), "user", 1),
  Occurrence("user elsewhere", "other", Violation(1, Opt), "user", 1),
  Occurrence("workspace", "svc",
    Calls(Opt, 1) \o Raise("Error", "workspace", 1) \o Detail("key", 1), "workspace", 1),
  Occurrence("entered once", "svc", Above(Entry("x")), "user", 1),
  Occurrence("entered twice", "svc", Above(Entry("y") \o Entry("x")), "user", 1),
  Occurrence("entered thrice", "svc", Above(Entry("z") \o Entry("y") \o Entry("x")), "user", 1),
  Occurrence("deep user", "svc", Deep("user"), "user", 1),
  Unnamed("deep workspace", Deep("workspace")),
  Occurrence("transcribe", "svc",
    Call("run", App, 1) \o Raise("Error", "quota", 1), "quota", 1),
  Occurrence("summarise", "svc",
    Frame("run", App, 1) \o Raise("Error", "quota", 1), "quota", 1),
  [Occurrence("log", "svc", <<>>, "disk full", 1) EXCEPT !.class = ""] }

=============================================================================
