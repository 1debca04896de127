--------------------------------- MODULE Plugin ---------------------------------
(***************************************************************************)
(* The plugin as its host drives it: the library resources and, beside     *)
(* them, the graphics entity.  The two share nothing but the host.         *)
(***************************************************************************)
EXTENDS PluginLifecycle

CONSTANT MaxDevices   \* see Graphic

VARIABLES registered, device, devices, entity, device_, alphas, alphasTemp,
          handed      \* see Graphic

graphicVars == <<registered, device, devices, entity, device_, alphas, alphasTemp,
                 handed>>
pluginVars == <<vars, graphicVars>>

Graphics == INSTANCE Graphic

ASSUME PluginAssumption == Graphics!GraphicAssumption

PluginInit == Init /\ Graphics!Init

PluginNext == \/ Next /\ UNCHANGED graphicVars
              \/ Graphics!Next /\ UNCHANGED vars

PluginSpec == PluginInit /\ [][PluginNext]_pluginVars /\ Fairness

(* The textures are those of the current device: see Graphic.              *)
DeviceCurrent == Graphics!DeviceCurrent
==================================================================================
