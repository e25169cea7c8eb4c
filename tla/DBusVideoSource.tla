-------------------------- MODULE DBusVideoSource ---------------------------
(***************************************************************************)
(* The properties of the interfaces ipcam.Media.VideoSource.Imaging* that  *)
(* clients read and set, by the method they call.  Modes are cast from any *)
(* uint32_t; a property that is in none of the tables is refused.          *)
(***************************************************************************)
Imaging ==
    {"Imaging"} \X {"Mirror", "Flip", "Brightness", "Contrast", "Chroma", "Saturation",
                    "Sharpness"}

AntiFlicker == {"AntiFlicker"} \X {"Mode", "Frequency"}

Backlight == {"Backlight"} \X {"Mode", "Level"}

Focus == {"Focus"} \X {"Mode", "DefaultSpeed", "NearLimit", "FarLimit"}

Exposure ==
    {"Exposure"} \X {"Mode", "Priority", "MinExposureTime", "MaxExposureTime", "MinGain",
                     "MaxGain", "MinIris", "MaxIris", "ExposureTime", "Compensation",
                     "Gain", "Iris"}

WhiteBalance == {"WhiteBalance"} \X {"Mode", "CbGain", "CrGain", "RGain", "GGain", "BGain"}

WideDynamicRange == {"WideDynamicRange"} \X {"Mode", "Level"}

LDC == {"LDC"} \X {"Mode", "Ratio"}

Gamma == {"Gamma"} \X {"CurveData"}

NoiseReduction == {"NoiseReduction"} \X {"Mode", "Level", "ParamTable"}

IrCutFilter == {"IrCutFilter"} \X {"Mode", "Threshold", "Hysteresis", "Brightness"}

\* Handlers by interface and property.
Properties ==
    Imaging \cup AntiFlicker \cup Backlight \cup Focus \cup Exposure \cup WhiteBalance
    \cup WideDynamicRange \cup LDC \cup Gamma \cup NoiseReduction \cup IrCutFilter
=============================================================================
