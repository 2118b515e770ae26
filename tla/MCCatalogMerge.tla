--------------------------- MODULE MCCatalogMerge ---------------------------
(***************************************************************************)
(* Four translation units, each one of: a source file that includes a      *)
(* header with class Shape and overloads of scale, the source that defines *)
(* the class, the source that defines the functions, a source that brings  *)
(* in a second Shape from another namespace and includes another source    *)
(* file, and that other source file.                                       *)
(***************************************************************************)
EXTENDS CatalogMerge

Site(file, line) == [file |-> file, line |-> line]
Code(kind, usr, owner, name, params) ==
  [kind |-> kind, usr |-> usr, owner |-> owner, name |-> name, params |-> params,
   const |-> FALSE, static |-> FALSE, def |-> TRUE, dflt |-> FALSE,
   calls |-> {}, enums |-> {}, locals |-> <<>>]
Fn(usr, name, params) == Code("fn", usr, "", <<name>>, params)
Proto(c) == [c EXCEPT !.def = FALSE, !.calls = {}, !.enums = {}, !.locals = <<>>]
Method(usr, name, params) == Code("method", usr, "Shape", <<name>>, params)
Calling(c, calls) == [c EXCEPT !.calls = {[usr |-> k[1], name |-> <<k[2]>>] : k \in calls}]
Record(usr, ns, name, site) ==
  [kind |-> "record", usr |-> usr, ns |-> ns, name |-> name, site |-> site]
Mention(use, usr, owner, type, ptr, site) ==
  [kind |-> "mention", use |-> use, usr |-> usr, owner |-> owner, type |-> type,
   ptr |-> ptr, site |-> site]
Forward(usr, site) == [kind |-> "forward", usr |-> usr, site |-> site]
Alias(usr, type, site) == [kind |-> "alias", usr |-> usr, type |-> type, site |-> site]
Unit(file, includes, cursors) == [file |-> file, includes |-> includes, cursors |-> cursors]

\* Two overloads that differ in type, two whose Dart types agree, and one
\* that takes the Shape of the header that declares it.
ScaleI == Fn("scaleI", "scale", <<"int">>)
ScaleD == Fn("scaleD", "scale", <<"double">>)
LabelC == Fn("labelC", "label", <<"const char*">>)
LabelM == Fn("labelM", "label", <<"char*">>)
PaintG == Fn("paintG", "paint", <<"gfx::Shape">>)
PaintU == Fn("paintU", "paint", <<"ui::Shape">>)
Is == Fn("is", "is", <<>>)

\* gfx/shape.h: class gfx::Shape, pointing to a Point it only declares.
ShapeH ==
  <<Forward("Point", Site("shape.h", 1)),
    Record("Shape", <<"Gfx">>, <<"Shape">>, Site("shape.h", 2)),
    Mention("field", "origin", "Shape", "Point", TRUE, Site("shape.h", 3)),
    Mention("field", "next", "Shape", "Shape", TRUE, Site("shape.h", 4)),
    [Method("draw", "draw", <<>>) EXCEPT !.def = FALSE, !.dflt = TRUE],
    [Method("make", "make", <<"int">>) EXCEPT !.static = TRUE],
    Proto([ScaleI EXCEPT !.dflt = TRUE]), Proto(ScaleD),
    Mention("return", "find", "", "Shape", TRUE, Site("shape.h", 9))>>

\* ui/shape.h: an unrelated ui::Shape, and types from outside the project.
OtherH ==
  <<Alias("size_t", "", Site("stddef.h", 1)),
    Record("UiShape", <<"Ui">>, <<"Shape">>, Site("ui.h", 1)),
    Mention("field", "width", "UiShape", "size_t", FALSE, Site("ui.h", 2)),
    Alias("Figure", "UiShape", Site("ui.h", 3)),
    [Method("paint", "paint", <<>>) EXCEPT !.owner = "UiShape"],
    Proto(PaintU)>>

UserCpp ==
  Unit("user.cpp", {"shape.h"},
       ShapeH \o <<Proto(PaintG), Calling(Fn("main", "main", <<>>), {<<"scaleI", "scale">>, <<"paintG", "paint">>}),
                   Mention("local", "s", "", "Shape", TRUE, Site("user.cpp", 2))>>)
ShapeCpp ==
  Unit("shape.cpp", {"shape.h", "point.h"},
       <<Record("Point", <<>>, <<"Point">>, Site("point.h", 1)), [kind |-> "enum", usr |-> "Mode"]>>
       \o ShapeH
       \o <<[Method("size", "size", <<>>) EXCEPT !.const = TRUE], Method("sizeM", "size", <<>>),
            Method("eqInt", "operator==", <<"int">>),
            Method("eqShape", "operator==", <<"gfx::Shape">>),
            Calling([Method("makeM", "make", <<>>) EXCEPT !.enums = {"Mode", "std"}],
                    {<<"make", "make">>, <<"eqInt", "operator==">>}),
            Calling(Code("ctor", "cShape", "Shape", <<"Shape">>, <<>>), {<<"scaleD", "scale">>}),
            Code("dtor", "dShape", "Shape", <<"~Shape">>, <<>>)>>)
AreaCpp ==
  Unit("area.cpp", {"shape.h"},
       ShapeH \o <<ScaleI, Calling(ScaleD, {<<"scaleI", "scale">>, <<"labelM", "label">>}),
                   [Is EXCEPT !.locals = <<"Shape">>], LabelM, LabelC, PaintG,
                   Mention("return", "find", "", "Shape", TRUE, Site("area.cpp", 7))>>)
OtherCpp ==
  Unit("other.cpp", {"ui.h", "stddef.h"},
       OtherH \o <<Calling(PaintU, {<<"is", "is">>}), Proto(Is),
                   Mention("variable", "fig", "", "Figure", FALSE, Site("other.cpp", 2))>>)
BothCpp == Unit("both.cpp", {"other.cpp", "ui.h", "shape.h", "stddef.h"}, OtherCpp.cursors \o ShapeH)

MCPrograms ==
  {p \in [1 .. 4 -> {UserCpp, ShapeCpp, AreaCpp, BothCpp, OtherCpp}] :
     \A cpp \in {UserCpp, ShapeCpp, AreaCpp} : Cardinality({u \in 1 .. 4 : p[u] = cpp}) <= 1}

ASSUME \A p \in MCPrograms : DefaultsAgree(p) /\ Orderly(p) /\ CallsDeclared(p) /\ NamesApart(p)

MCProjectFiles ==
  {"user.cpp", "shape.cpp", "area.cpp", "other.cpp", "both.cpp", "shape.h", "point.h", "ui.h"}
MCUsrOrder ==
  <<"draw", "eqDouble", "eqInt", "eqShape", "is", "labelC", "labelM", "main", "make", "makeM", "paint",
    "paintG", "paintU", "scaleD", "scaleI", "size", "sizeM">>
MCNumeral == [n \in 1 .. 50 |-> ToString(n)]
MCReservedWords == {<<"is">>}
MCTypeSuffix ==
  ("int" :> <<"Int">>) @@ ("double" :> <<"Double">>)
    @@ [t \in {"char*", "const char*"} |-> <<"Nullable", "String">>]
    @@ [t \in {"gfx::Shape", "ui::Shape"} |-> <<"Shape">>]

\* Two .cpp files, each with a class of its own that has a nested Node:
\* nested classes carry no namespace.
NestedNode(usr, file) ==
  Unit(file, {}, <<Record(usr, <<>>, <<usr>>, Site(file, 1)),
                   Record(usr \o "_Node", <<>>, <<"Node">>, Site(file, 2))>>)
NestedPrograms == {<<NestedNode("A", "user.cpp"), NestedNode("B", "area.cpp"),
                     NestedNode("A", "user.cpp")>>}

\* Two .cpp files that each define one operator of a class: which of the
\* two stays an operator is the order in which they were merged.
EqualsCpp(usr, type, file) ==
  Unit(file, {"shape.h"}, ShapeH \o <<Method(usr, "operator==", <<type>>)>>)
OperatorPrograms == {<<EqualsCpp("eqInt", "int", "area.cpp"), EqualsCpp("eqDouble", "double", "user.cpp")>>}

\* A destructor that calls an overloaded function, and a function with a
\* local of its class.
GuardCpp ==
  Unit("shape.cpp", {"shape.h"},
       ShapeH \o <<Calling(Code("dtor", "dShape", "Shape", <<"~Shape">>, <<>>),
                           {<<"scaleI", "scale">>})>>)
GuardedCpp == Unit("area.cpp", {"shape.h"}, ShapeH \o <<ScaleI, ScaleD, [Is EXCEPT !.locals = <<"Shape">>]>>)
GuardPrograms == {<<GuardCpp, GuardedCpp, UserCpp>>}

\* A file that declares a function itself, one whose header declares it with
\* a default argument, and the one that defines it.
Redeclares == Unit("user.cpp", {}, <<Proto(ScaleI), Calling(Fn("main", "main", <<>>), {<<"scaleI", "scale">>})>>)
Declares == Unit("other.cpp", {"ui.h"}, <<Proto([ScaleI EXCEPT !.dflt = TRUE])>>)
DefaultPrograms == {<<Redeclares, Declares, Unit("area.cpp", {}, <<ScaleI>>)>>}

\* A file that gives a pure virtual method of its header's class a body.
PureBodyCpp == Unit("shape.cpp", {"shape.h"}, ShapeH \o <<Method("draw", "draw", <<>>)>>)
PureBodyPrograms == {<<UserCpp, PureBodyCpp>>}
=============================================================================
