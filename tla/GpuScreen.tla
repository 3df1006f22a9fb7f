------------------------------ MODULE GpuScreen ------------------------------
(***************************************************************************)
(* What the GPU shows: gpu_init, gpu_redraw and fill_rect of               *)
(* src/src/virtio_gpu.c, and what src/src/paint.c draws with them.  A      *)
(* command and its answer are one step here (virtio_gpu_wait is in         *)
(* PciDevices); the GPU refuses a rectangle that is not inside of its      *)
(* resource, and may refuse a command for its own reasons.                 *)
(*                                                                         *)
(* Lengths are scaled, Unit is the number of pixels of one: the picture of *)
(* 640 by 480 that paint() draws for is 16 by 12 with units of 40, and the *)
(* pen, 10 pixels wide in the code, is Pen units wide.  The x of paint()   *)
(* has no value before the first event: it starts with any of Garbage.     *)
(***************************************************************************)
EXTENDS Integers, Sequences

CONSTANTS Displays,      \* the sizes that the GPU may report, <<width, height>>
          Area,          \* the squares that the 350 pages of the picture hold
          Unit,          \* pixels per unit
          Pen,           \* the width of the pen
          Full,          \* the greatest coordinate of the tablet, 32767
          Coordinates,   \* those of its events
          Garbage,       \* what x may start with
          MaxEvents,     \* bound on the events
          MaxRefusals    \* bound on the commands refused for other reasons

VARIABLES width, height,   \* of screen_buff
          pixels,          \* its picture
          resource,        \* the GPU's: whether it exists, its backing, scanout, picture
          shown,           \* what is on the display
          pc,
          strip,           \* the rectangle of the palette that comes next
          rect, color,     \* of paint()
          x, y, held,      \* of paint()
          cut,             \* history: the pen was drawn across an edge of the screen
          events, refused

vars == <<width, height, pixels, resource, shown, pc, strip, rect, color, x, y, held,
          cut, events, refused>>

Rect(left, top, w, h) == [x |-> left, y |-> top, width |-> w, height |-> h]

Whole == Rect(0, 0, width, height)

Inside(r) == r.x + r.width <= width /\ r.y + r.height <= height

Cell(row, col) == row * width + col

\* the squares of r that are on the screen, for a picture in rows
Cells(r) == {c \in 0 .. width * height - 1 :
               /\ c \div width \in r.y .. r.y + r.height - 1
               /\ c % width \in r.x .. r.x + r.width - 1}

\* r is on the screen, but not all of it
Across(r) == ~Inside(r) /\ Cells(r) # {}

\* the code's bottom and right, and its two loops
fill_rect(r, fill_color) ==
  LET bottom == IF r.y + r.height > height THEN height ELSE r.y + r.height
      right  == IF r.x + r.width > width THEN width ELSE r.x + r.width
      there  == {Cell(row, col) : row \in r.y .. bottom - 1, col \in r.x .. right - 1}
  IN  [c \in DOMAIN pixels |-> IF c \in there THEN fill_color ELSE pixels[c]]

Init ==
  /\ width = 0 /\ height = 0 /\ pixels = <<>> /\ shown = <<>>
  /\ resource = [exists |-> FALSE, backed |-> FALSE, scanout |-> FALSE, picture |-> <<>>]
  /\ pc = "info" /\ strip = 1 /\ rect = Rect(160 \div Unit, 0, 80 \div Unit, 80 \div Unit)
  /\ color = "none" /\ x \in Garbage /\ y = 0 /\ held = FALSE
  /\ cut = FALSE /\ events = 0 /\ refused = 0

drawing == <<strip, rect, color, x, y, held, cut, events>>

----------------------------------------------------------------------------
(* The commands, as the GPU carries them out. *)
Accepted(r) ==
  CASE pc = "create" -> TRUE
    [] pc \in {"attach", "scanout"} -> resource.exists
    [] OTHER -> resource.backed /\ Inside(r)

\* r of the picture comes from the backing, from offset on
Transfer(r, offset) ==
  [resource EXCEPT !.picture =
     [c \in DOMAIN pixels |->
        IF c \in Cells(r) THEN pixels[offset + Cell((c \div width) - r.y, (c % width) - r.x)]
        ELSE resource.picture[c]]]

Flush(r) ==
  [c \in DOMAIN pixels |-> IF c \in Cells(r) /\ resource.scanout THEN resource.picture[c]
                           ELSE shown[c]]

\* a command at pc, what it does and where the driver goes on with either answer
Command(at, r, done, then, otherwise) ==
  /\ pc = at
  /\ \/ Accepted(r) /\ done /\ pc' = then /\ UNCHANGED refused
     \/ /\ ~Accepted(r) \/ refused < MaxRefusals
        /\ refused' = IF Accepted(r) THEN refused + 1 ELSE refused
        /\ pc' = otherwise
        /\ UNCHANGED <<resource, shown>>

Keeps == UNCHANGED <<width, height, pixels, drawing>>

----------------------------------------------------------------------------
(* gpu_init *)
DisplayInfo ==
  /\ pc = "info"
  /\ \/ /\ \E d \in Displays : width' = d[1] /\ height' = d[2]
        /\ pixels' = [c \in 0 .. width' * height' - 1 |-> "zero"]
        /\ shown' = pixels' /\ pc' = "create" /\ UNCHANGED refused
     \/ /\ refused < MaxRefusals /\ refused' = refused + 1 /\ pc' = "failed"
        /\ UNCHANGED <<width, height, pixels, shown>>
  /\ UNCHANGED <<resource, drawing>>

Create2D ==
  /\ Command("create", Whole,
             resource' = [resource EXCEPT !.exists = TRUE, !.picture = shown] /\ UNCHANGED shown,
             "attach", "failed")
  /\ Keeps

AttachBacking ==
  /\ Command("attach", Whole, resource' = [resource EXCEPT !.backed = TRUE] /\ UNCHANGED shown,
             "scanout", "failed")
  /\ Keeps

SetScanout ==
  /\ Command("scanout", Whole, resource' = [resource EXCEPT !.scanout = TRUE] /\ UNCHANGED shown,
             "background", "failed")
  /\ Keeps

Background ==
  /\ pc = "background" /\ pc' = "first"
  /\ pixels' = [c \in DOMAIN pixels |-> "white"]
  /\ UNCHANGED <<width, height, resource, shown, drawing, refused>>

FirstTransfer ==
  Command("first", Whole, resource' = Transfer(Whole, 0) /\ UNCHANGED shown, "draw", "failed")
  /\ Keeps

FirstFlush ==
  Command("draw", Whole, shown' = Flush(Whole) /\ UNCHANGED resource, "palette", "failed")
  /\ Keeps

----------------------------------------------------------------------------
(* gpu_redraw, which does not look at the answer to the flush *)
OffsetOfRow(r) == r.x                      \* mutant: as if r were in the first row

Offset(r) == r.x + r.y * width

Back == IF strip > 6 THEN "loop" ELSE "palette"

RedrawTransfer ==
  /\ Command("transfer", rect, resource' = Transfer(rect, Offset(rect)) /\ UNCHANGED shown,
             "flush", Back)
  /\ Keeps

RedrawFlush ==
  /\ Command("flush", rect, shown' = Flush(rect) /\ UNCHANGED resource, "again", "again")
  /\ Keeps

RedrawAgain ==
  /\ Command("again", rect, resource' = Transfer(rect, Offset(rect)) /\ UNCHANGED shown, Back, Back)
  /\ Keeps

----------------------------------------------------------------------------
(* paint *)
Fills(r, c) ==
  /\ rect' = r /\ color' = c /\ pixels' = fill_rect(r, c) /\ pc' = "transfer"

Strips == << <<160, 80, "red">>, <<240, 80, "green">>, <<320, 80, "blue">>,
             <<400, 80, "magenta">>, <<0, 160, "grey">>, <<480, 160, "grey">> >>

Palette ==
  /\ pc = "palette"
  /\ Fills(Rect(Strips[strip][1] \div Unit, 0, Strips[strip][2] \div Unit, 80 \div Unit),
           Strips[strip][3])
  /\ strip' = strip + 1
  /\ UNCHANGED <<width, height, resource, shown, x, y, held, cut, events, refused>>

\* the color that a press at (x, y) chooses
Chosen ==
  LET px == x * Unit
  IN  CASE y * Unit <= 80 /\ px \in 160 .. 239 -> "red"
        [] y * Unit <= 80 /\ px \in 240 .. 319 -> "green"
        [] y * Unit <= 80 /\ px \in 320 .. 399 -> "blue"
        [] y * Unit <= 80 /\ px \in 400 .. 480 -> "magenta"
        [] OTHER -> color

\* one turn of the loop: the next event, if there is one, or the last one again, which
\* changes nothing; and the pen
Turn ==
  /\ pc = "loop"
  /\ \/ UNCHANGED <<x, y, held, events>> /\ color' = color
     \/ /\ events < MaxEvents /\ events' = events + 1
        /\ \/ \E v \in Coordinates : x' = (v \div Full) * (640 \div Unit) /\ UNCHANGED <<y, held>>
              /\ color' = color
           \/ \E v \in Coordinates : y' = (v \div Full) * (480 \div Unit) /\ UNCHANGED <<x, held>>
              /\ color' = color
           \/ held' = TRUE /\ color' = Chosen /\ UNCHANGED <<x, y>>
           \/ held' = FALSE /\ color' = color /\ UNCHANGED <<x, y>>
  /\ IF y' * Unit >= 90 /\ held'
     THEN /\ Fills(Rect(x', y', Pen, Pen), color')
          /\ cut' = (cut \/ Across(rect'))
     ELSE UNCHANGED <<rect, pixels, pc, cut>>
  /\ UNCHANGED <<width, height, resource, shown, strip, refused>>

Next == \/ DisplayInfo \/ Create2D \/ AttachBacking \/ SetScanout \/ Background
        \/ FirstTransfer \/ FirstFlush \/ RedrawTransfer \/ RedrawFlush \/ RedrawAgain
        \/ Palette \/ Turn

Spec == Init /\ [][Next]_vars

----------------------------------------------------------------------------
\* On a display of the size that paint() draws for, or a larger one that the pages of
\* the picture can hold, whatever has been drawn is what is shown when the loop comes
\* round, with no command refused: each redraw covers what was filled before it.  Of a pen
\* across an edge the part on the screen is drawn, but its redraw refused (virtio_gpu.c:238-284,
\* paint.c:28-134).
ShownIsDrawn ==
  /\ pc = "loop" /\ refused = 0 /\ ~cut
  /\ width * Unit >= 640 /\ height * Unit >= 480 /\ width * height <= Area
  => shown = pixels
=============================================================================
