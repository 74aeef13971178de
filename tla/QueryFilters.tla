----------------------------- MODULE QueryFilters -----------------------------
(***************************************************************************)
(* The filters of a query (evms/interpreter.c): each walks the list of     *)
(* objects the query found and prunes those that do not match.             *)
(*                                                                         *)
(* A world is what the engine knows: for every handle its information      *)
(* record.  A Scan operator says whether an object stays in the list, the  *)
(* negation of what the C function of its name returns to PruneList.  An   *)
(* empty array and a NULL one are the same set; handle 0 is None.          *)
(***************************************************************************)
EXTENDS Integers, FiniteSets

None == "none"

StorageTypes == {"EVMS_OBJECT", "REGION", "SEGMENT", "DISK"}

\* What only some types have is empty or None in the others; a volume's only
\* child is its object, a container's are the objects it consumes and its
\* parents those it produces.
Thing == [type |-> "PLUGIN", plugin |-> None, volume |-> None, children |-> {},
          parents |-> {}, producer |-> None, consumer |-> None, size |-> 0,
          data |-> "DATA", kind |-> None, features |-> {}, grows |-> FALSE,
          shrinks |-> FALSE, converts |-> FALSE]

Topmost(i) == i.parents = {} /\ i.volume = None

-----------------------------------------------------------------------------
(* Looking for an object below another *)

\* Slip: the container's own parts are not the only objects of it.
NotProduced(w, h, container) == container \in w[h].children

Check_Child_For_Disk(w, h, disk) ==
    LET found[i \in DOMAIN w] == \E c \in w[i].children : c = disk \/ found[c]
    IN  found[h]

Check_Child_For_Region(w, h, region) ==
    LET found[i \in DOMAIN w] ==
            /\ w[i].type \in {"EVMS_OBJECT", "REGION"}
            /\ \E c \in w[i].children : c = region \/ found[c]
    IN  found[h]

\* Below a region the search goes on as if for a region, and a segment is
\* never found by its own handle: the case has no break.
Check_Child_For_Segment(w, h, segment) ==
    LET found[i \in DOMAIN w] ==
            CASE w[i].type \in {"CONTAINER", "EVMS_OBJECT"} ->
                   \E c \in w[i].children : c = segment \/ found[c]
              [] w[i].type = "REGION" ->
                   \E c \in w[i].children :
                       c = segment \/ Check_Child_For_Region(w, c, segment)
              [] OTHER -> FALSE
    IN  found[h]

Check_Child_For_Container(w, h, container) ==
    LET found[i \in DOMAIN w] ==
            CASE w[i].type = "CONTAINER" -> i = container
              [] w[i].type \in StorageTypes ->
                   w[i].producer = container \/
                   \E c \in w[i].children : c = container \/ found[c]
              [] OTHER -> FALSE
    IN  found[h]

-----------------------------------------------------------------------------
(* One filter and one object o; the argument is a handle of the world *)

Scan_For_Volumes(w, o, volume) ==
    CASE w[o].type = "PLUGIN" -> o \in w[volume].features
      [] w[o].type = "VOLUME" -> o = volume
      [] w[o].type \in {"EVMS_OBJECT", "REGION"} -> w[o].volume = volume
      [] OTHER -> FALSE

Scan_For_Convertible(w, o) == w[o].type = "VOLUME" => w[o].converts

Scan_For_Plugin(w, o, plugin) ==
    CASE w[o].type = "PLUGIN" -> o = plugin
      [] w[o].type = "VOLUME" -> plugin \in w[o].features
      [] OTHER -> w[o].plugin = plugin

Scan_For_Objects(w, o, object) ==
    CASE w[o].type = "PLUGIN" -> o \in w[object].features
      [] w[o].type = "VOLUME" -> w[object].volume = o
      [] w[o].type \in {"EVMS_OBJECT", "DISK"} -> o = object
      [] w[o].type = "REGION" -> o = object \/ Check_Child_For_Region(w, object, o)
      [] w[o].type = "SEGMENT" -> o = object \/ Check_Child_For_Segment(w, object, o)
      [] OTHER -> TRUE

Scan_For_Containers(w, o, container) ==
    CASE w[o].type = "PLUGIN" -> o = w[container].plugin
      [] w[o].type = "VOLUME" ->
           \E c \in w[o].children : Check_Child_For_Container(w, c, container)
      [] w[o].type \in {"EVMS_OBJECT", "REGION"} -> w[o].producer = container
      [] w[o].type = "CONTAINER" -> o = container
      [] OTHER -> w[o].consumer = container

Scan_For_Regions(w, o, region) ==
    CASE w[o].type = "VOLUME" ->
           \/ o = w[region].volume
           \/ \E c \in w[o].children : Check_Child_For_Region(w, c, region)
      [] w[o].type = "EVMS_OBJECT" ->
           o = region \/ \E c \in w[o].children : Check_Child_For_Region(w, c, region)
      [] w[o].type = "REGION" -> o = region
      [] w[o].type = "CONTAINER" -> w[region].producer = o
      [] OTHER -> TRUE

\* The kind of plug-in is in its id; associative features count as features.
Scan_For_Plugins(w, o, mask) ==
    w[o].type = "PLUGIN" =>
        w[o].kind = mask \/ (mask = "FEATURE" /\ w[o].kind = "ASSOCIATIVE_FEATURE")

Scan_For_Disks(w, o, disk) ==
    CASE w[o].type = "SEGMENT" -> o = disk \/ Check_Child_For_Disk(w, o, disk)
      [] w[o].type = "DISK" -> o = disk
      [] OTHER -> TRUE

\* Every parent or consumed object is compared.
Scan_For_Segments(w, o, segment) ==
    CASE w[o].type = "SEGMENT" -> o = segment \/ Check_Child_For_Disk(w, o, segment)
      [] w[o].type = "DISK" -> segment \in w[o].parents
      [] w[o].type = "CONTAINER" -> segment \in w[o].children
      [] OTHER -> TRUE

Within(size, type, low, high) ==
    CASE type = "GT" -> size > low
      [] type = "LT" -> size < high
      [] OTHER -> low <= size /\ size <= high

Scan_For_Size(w, o, type, low, high) ==
    w[o].type # "PLUGIN" => Within(w[o].size, type, low, high)

Scan_For_Unclaimed(w, o) ==
    w[o].type \in StorageTypes =>
        Topmost(w[o]) /\ (w[o].type = "SEGMENT" => w[o].data # "META_DATA")

\* What a container has free is in a region it produces.
Scan_For_Freespace(w, o) ==
    CASE w[o].type = "CONTAINER" -> \E p \in w[o].parents : w[p].data = "FREE_SPACE"
      [] w[o].type = "SEGMENT" -> w[o].data = "FREE_SPACE"
      [] OTHER -> FALSE

Scan_For_Selected_Objects(w, o, selected) == w[o].type # "PLUGIN" => o \notin selected
=============================================================================
