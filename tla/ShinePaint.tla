------------------------------- MODULE ShinePaint -------------------------------
(***************************************************************************)
(* The colour of a moon in the world (ShineAppearanceHook.cpp).  Vanilla   *)
(* drives the "Color" animation of its model to a frame; a colour of the   *)
(* palette is another frame of it or a tint of the material, and a tinted  *)
(* material no longer follows the animation.  The hooks paint a moon when  *)
(* it is made, when vanilla drives its animation, and with every frame.    *)
(*                                                                         *)
(* One moon, and the moons that are collected around it: for some seconds  *)
(* after that the animation of whatever model vanilla drives is given the  *)
(* colour of the collected moon, which is meant for the one Mario holds up.*)
(***************************************************************************)
CONSTANTS
  Frames,      \* palette entries with a frame of their own: kKingdomColorFrame
  Tints,       \* the others: classifications and kingdoms of frame 0
  Gold,        \* what vanilla shows
  NoPalette    \* kNoPaletteOverride

Palettes == Frames \cup Tints

ASSUME ShinePaintAssumption == Frames \cap Tints = {} /\ {Gold, NoPalette} \cap Palettes = {}

VARIABLES
  palette,     \* shine_palette of the moon
  build,       \* what it is made of: a model or none, its animation, its body material
  anim, tint,  \* the frame of the animation; the tint, if the material is programmable
  latched,     \* get_demo_palette, if latched within kGetDemoHoldWindowMs
  recentGet,   \* a moon was collected within kGetDemoHoldWindowMs
  crashed,     \* an animation was driven, or a material written, that is not there
  \* ---- history ----
  ticked,      \* Shine::control has run since anything else
  soiled       \* since it was made the moon was tinted with another colour than that it has

paintVars == <<palette, build, anim, tint, latched, recentGet, crashed, ticked, soiled>>

Builds == {{}} \cup {{"model"} \cup parts : parts \in SUBSET {"anim", "material"}}

PaintInit ==
  /\ palette \in {NoPalette} \cup Palettes /\ build \in Builds
  /\ anim = Gold /\ tint = NoPalette
  /\ latched = NoPalette /\ recentGet = FALSE /\ crashed = FALSE
  /\ ticked = FALSE /\ soiled = FALSE

Look == IF tint = NoPalette THEN anim ELSE tint

\* kingdomColorFrameForPal, with isMclAnimExist.
HasFrame(b, c) == c \in Frames /\ "anim" \in b

\* tryWriteShineTint: the tint after it, t before; without the material nothing.
Tinted(b, t, c) == IF {"model", "material"} \subseteq b THEN c ELSE t

\* setStageShineAnimFrameOverride: the animation and the tint when it is called to
\* drive the animation to frame f.  Nobody calls it for a model without one.
DemoColor  == IF recentGet THEN latched ELSE NoPalette
DriveColor == IF DemoColor = NoPalette THEN palette ELSE DemoColor

Driven(b, t, f) ==
  CASE DriveColor \in Frames -> <<DriveColor, t>>
    [] DriveColor \in Tints  -> <<f, Tinted(b, t, DriveColor)>>
    [] OTHER                 -> <<f, t>>

\* shineInitColorOverride, for a model as vanilla made it.  The frame is driven through
\* the function that is hooked.
Made(b, c) ==
  IF c = NoPalette \/ b = {} THEN <<Gold, NoPalette>>
  ELSE IF HasFrame(b, c) THEN Driven(b, NoPalette, c) ELSE <<Gold, Tinted(b, NoPalette, c)>>

\* applyShineColorTo: isExistModel and isExistMaterial come first, then the frame, past
\* the hook, or the tint.
Painted(b, a, t, c) ==
  IF c = NoPalette \/ ~({"model", "material"} \subseteq b) THEN <<a, t>>
  ELSE IF HasFrame(b, c) THEN <<c, t>> ELSE <<a, c>>

\* A model of build b, of which animation and tint were a and t, becomes what look says.
Shows(b, a, t, look) ==
  /\ anim' = look[1] /\ tint' = look[2]
  /\ crashed' = \/ crashed
                \/ look[1] # a /\ "anim" \notin b
                \/ look[2] # t /\ "material" \notin b

\* Shine::init: a scene is loaded, or a moon appears in it.
InitShine ==
  /\ build' \in Builds
  /\ Shows(build', Gold, NoPalette, Made(build', palette))
  /\ ticked' = FALSE /\ soiled' = (tint' \notin {NoPalette, palette})
  /\ UNCHANGED <<palette, latched, recentGet>>

\* setShinePalette: the colour arrives, or that of another slot.
LearnColor ==
  /\ palette' \in Palettes \ {palette}
  /\ ticked' = FALSE /\ soiled' = (soiled \/ tint \notin {NoPalette, palette'})
  /\ UNCHANGED <<build, anim, tint, latched, recentGet, crashed>>

\* shineShowCurrentModelLatch: a moon of colour c is shown, on collection or when a
\* stage is loaded.
ShowModel ==
  /\ latched' \in Palettes \ {latched}
  /\ UNCHANGED <<palette, build, anim, tint, recentGet, crashed, ticked, soiled>>

\* stampMoonGet.
StampGet ==
  /\ ~recentGet /\ recentGet' = TRUE
  /\ UNCHANGED <<palette, build, anim, tint, latched, crashed, ticked, soiled>>

WindowsEnd ==
  /\ \/ latched # NoPalette /\ latched' = NoPalette /\ UNCHANGED recentGet
     \/ recentGet /\ recentGet' = FALSE /\ UNCHANGED latched
  /\ UNCHANGED <<palette, build, anim, tint, crashed, ticked, soiled>>

\* Vanilla drives the animation of this moon, to its own frame.
DriveAnim ==
  /\ "anim" \in build
  /\ Shows(build, anim, tint, Driven(build, tint, Gold))
  /\ ticked' = FALSE /\ soiled' = (soiled \/ tint' \notin {NoPalette, palette})
  /\ UNCHANGED <<palette, build, latched, recentGet>>

\* shineControlColorCycle when only the colours that cycle are painted again
\* (kPerFrameColorEnforce).
ControlCycles ==
  /\ Shows(build, anim, tint, IF palette \in Frames THEN <<anim, tint>>
                              ELSE Painted(build, anim, tint, palette))
  /\ ticked' = TRUE
  /\ UNCHANGED <<palette, build, latched, recentGet, soiled>>

\* shineControlColorCycle.  A tint that differs is put right.
Control ==
  /\ Shows(build, anim, tint, Painted(build, anim, tint, palette))
  /\ ticked' = TRUE
  /\ UNCHANGED <<palette, build, latched, recentGet, soiled>>

PaintNext ==
  \/ InitShine \/ LearnColor \/ ShowModel \/ StampGet \/ WindowsEnd \/ DriveAnim \/ Control

PaintSpec == PaintInit /\ [][PaintNext]_paintVars

PaintTypeOK ==
  /\ {palette, tint, latched} \subseteq {NoPalette} \cup Palettes /\ anim \in {Gold} \cup Palettes
  /\ build \in Builds /\ {recentGet, crashed, ticked, soiled} \subseteq BOOLEAN

\* However a moon was made and whatever vanilla did to it, the next frame shows it in
\* its colour (ShineAppearanceHook.cpp:704), and neither an animation nor a material
\* that is not there is ever written.  A model without the body material is left out:
\* every frame passes it by (line 679), and it keeps what it got when it was made.  And
\* a moon with a frame of its own that was tinted before keeps the tint: by a palette
\* of another slot, or by the colour of a moon collected just before, which line 355
\* says heals itself.
PaintHolds ==
  /\ ~crashed
  /\ ticked /\ palette # NoPalette /\ {"model", "material"} \subseteq build =>
       Look = palette \/ (soiled /\ "anim" \in build /\ palette \in Frames)
=============================================================================
